---- MODULE Spec2Model ----
(***************************************************************************)
(* WsGatewayClient (ws-gateway-client.ts): the connection state machine,   *)
(* the RPC correlation layer and the reconnect policy, together with the   *)
(* WebSocket objects it creates and the tasks (socket events, timers, API  *)
(* calls, completions of the signing step) that run its handlers.          *)
(*                                                                         *)
(* One action is one task of the event loop: the handler's synchronous     *)
(* code followed by the promise continuations it made runnable (the        *)
(* microtask queue, field `micro` of the working record).                  *)
(***************************************************************************)
EXTENDS Integers, Sequences, FiniteSets, TLC

(* ---- bounds of the model ---- *)
\* WebSocket objects that are not yet garbage at one time
MaxSockets == 2
\* correlation ids in use at one time
MaxReq == 2
\* sendMessageStreaming() calls made in one run
MaxWaits == 2
\* sendConnect() calls suspended in signPayload at one time
MaxSigning == 1
\* the count of consecutive failures is kept exactly up to this value
FailCap == 6
\* the clock of the keep-alive specification runs over this many half seconds
MaxInstant == 16
\* chat runs (run ids) the gateway issues
MaxRuns == 2
\* callback invocations of the chat router that are recorded
MaxCalls == 4
\* device identities generated
MaxIdentities == 2
\* distinct device tokens the gateway issues
MaxTokens == 2
\* in the pairing specification connectWebSocket() is called while fewer than
\* this many reconnects were scheduled since the last successful connect
MaxPairFailures == 1
\* bytes of a key of the identity specification (32 in the program; like 32, one
\* more than a multiple of three plus one, so that the encoding ends in a group
\* of two bytes)
KeyLen == 5

(* ---- program constants ---- *)
BACKOFF_FLOOR == 1000
BACKOFF_CEIL == 30000
CLOSE_STOPPED == 1000
CLOSE_POLICY == 3008
CLOSE_TICK == 4000
\* ws.close() without a code
CLOSE_NOCODE == 1005
DEFAULT_TICK_MS == 30000
MIN_WATCH_MS == 1000

Sockets == 1..MaxSockets
Waits == 1..MaxWaits
\* a streaming send not made yet
NoStream == [phase |-> "idle", seen |-> "none", errors |-> 0, sends |-> 0]
ReqIds == 1..MaxReq
NoSocket == 0
NoNonce == 0
\* a nonce string of white space only
BlankNonce == -1

Min(a, b) == IF a < b THEN a ELSE b

(* ---- tokens, identities and the params of a connect request ---- *)
\* no token: "" for the operator token, null for the stored device token,
\* undefined for a resolved token
NoToken == 0
\* the device tokens the gateway issues
Tokens == 1..MaxTokens
\* the operator token of the settings when one is configured
OperatorToken == MaxTokens + 1
NoIdentity == 0
Identities == 1..MaxIdentities

\* params.device: absent (id NoIdentity), or the signed device block
NoDevice == [id |-> NoIdentity, signedId |-> NoIdentity, nonce |-> NoNonce, token |-> NoToken]
\* params.auth: absent (has = FALSE), or {token, deviceToken}
NoAuth == [has |-> FALSE, token |-> NoToken, deviceToken |-> NoToken]

\* the request's params are not told (a request other than connect, or a
\* specification that leaves the settings out)
NoParams == [auth |-> NoAuth, device |-> NoDevice, identity |-> NoIdentity]

\* what sendConnect() reads before it signs: getToken(), getDeviceIdentity(),
\* getDeviceAuthToken()
NoCapture == [token |-> NoToken, identity |-> NoIdentity, stored |-> NoToken]

\* settings.deviceIdentity = null; a stored identity holds its strings as
\* sequences of character codes
NoData ==
    [has |-> FALSE, deviceId |-> <<>>, publicKey |-> <<>>, privateKey |-> <<>>,
     createdAtMs |-> 0]

\* no buildDeviceAuthPayload() call yet
NoAuthParams ==
    [deviceId |-> <<>>, clientId |-> <<>>, clientMode |-> <<>>, role |-> <<>>,
     scopes |-> <<>>, signedAtMs |-> 0,
     token |-> [isNull |-> TRUE, chars |-> <<>>], nonce |-> <<>>]

WsConnectionState ==
    {"disconnected", "connecting", "authenticating", "connected",
     "reconnecting", "pairing_required"}

(* ---- error.code / error.message of a failed connect response ---- *)
NoCode == "<undefined>"
ErrorCodes ==
    {"PAIRING_REQUIRED", "DEVICE_IDENTITY_REQUIRED", "UNAUTHORIZED",
     "pairing_required", NoCode}

MsgUpper ==
    <<"P","A","I","R","I","N","G"," ","R","E","Q","U","I","R","E","D">>
MsgMixed ==
    <<"n","o",":"," ","P","a","i","r","i","n","g"," ","r","e","q","u","i","r","e","d","!">>
MsgUnderscore ==
    <<"p","a","i","r","i","n","g","_","r","e","q","u","i","r","e","d">>
MsgTruncated ==
    <<"p","a","i","r","i","n","g"," ","r","e","q","u","i","r","e">>
MsgUnauthorized ==
    <<"u","n","a","u","t","h","o","r","i","z","e","d">>
\* res.error?.message ?? "unknown gateway error"
MsgDefault ==
    <<"u","n","k","n","o","w","n"," ","g","a","t","e","w","a","y"," ","e","r","r","o","r">>

ErrorMessages == {"upper", "mixed", "underscore", "truncated", "unauthorized", "absent"}

MessageText(m) ==
    CASE m = "upper" -> MsgUpper
      [] m = "mixed" -> MsgMixed
      [] m = "underscore" -> MsgUnderscore
      [] m = "truncated" -> MsgTruncated
      [] m = "unauthorized" -> MsgUnauthorized
      [] OTHER -> MsgDefault

UpperChars == <<"A","D","E","G","I","N","P","Q","R","U">>
LowerChars == <<"a","d","e","g","i","n","p","q","r","u">>

ToLowerChar(ch) ==
    IF \E i \in 1..Len(UpperChars) : UpperChars[i] = ch
    THEN LowerChars[CHOOSE i \in 1..Len(UpperChars) : UpperChars[i] = ch]
    ELSE ch

ToLowerCase(s) == [i \in 1..Len(s) |-> ToLowerChar(s[i])]

Includes(s, needle) ==
    \E i \in 0..(Len(s) - Len(needle)) : SubSeq(s, i + 1, i + Len(needle)) = needle

PairingNeedle ==
    <<"p","a","i","r","i","n","g"," ","r","e","q","u","i","r","e","d">>

Err(code, message) == [code |-> code, message |-> message]

\* the error objects the gateway answers a connect request with
ConnectErrors ==
    {Err("PAIRING_REQUIRED", "absent"), Err("PAIRING_REQUIRED", "mixed"),
     Err("DEVICE_IDENTITY_REQUIRED", "unauthorized"),
     Err("UNAUTHORIZED", "upper"), Err(NoCode, "mixed"),
     Err(NoCode, "underscore"), Err("UNAUTHORIZED", "truncated"),
     Err("pairing_required", "unauthorized"), Err(NoCode, "absent")}

\* an Error that did not come from a response frame (timeout, flush, throw)
LocalError == [code |-> NoCode, message |-> "absent"]

IsPairingRequired(err) ==
    \/ err.code = "PAIRING_REQUIRED"
    \/ err.code = "DEVICE_IDENTITY_REQUIRED"
    \/ Includes(ToLowerCase(MessageText(err.message)), PairingNeedle)

VARIABLES
    ws,              \* this.ws: the socket the client holds, or NoSocket
    readyState,      \* readyState of every WebSocket object created
    state,           \* this.state
    closed,          \* this.closed: explicitly stopped
    connectNonce,    \* this.connectNonce (a nonce names the socket that issued it)
    connectSent,     \* this.connectSent
    connectTimer,    \* the handshake timeout is armed
    tickTimer,       \* the keep-alive interval is armed
    reconnectTimer,  \* the reconnect timeout is armed
    lastTick,        \* this.lastTick is set
    backoffMs,       \* this.backoffMs
    pending,         \* this.pending: the registered requests
    rpcTimers,       \* ids whose per-request timeout is armed
    signing,         \* per nonce, the sendConnect() calls suspended in signPayload
    notes,           \* the callbacks invoked by the last task, in order
    lastErr,         \* the error of the connect response handled by the last task
    failures,        \* reconnects scheduled since the last successful connect
    lastOp,          \* the last task
    now,             \* Date.now(), in ms since the connect response (keep-alive specification)
    lastTickAt,      \* this.lastTick as a time
    tickIntervalMs,  \* this.tickIntervalMs
    watchAt,         \* when the keep-alive interval fires next
    chatEventListeners,  \* GatewayClient.chatEventListeners: the run ids registered
    abortHandlers,   \* the runs whose abortHandler listens on a signal not yet fired
    calls,           \* the callbacks of streaming sends invoked so far, in order
    event,           \* the chat event handled by the last task of the router
    finished,        \* the runs for which a terminal chat event was dispatched
    wsClient,        \* GatewayClient.wsClient is set
    gatewayToken,    \* settings.gatewayToken: the operator token, or NoToken for ""
    deviceIdentity,  \* settings.deviceIdentity, or NoIdentity for null
    deviceAuthToken, \* settings.deviceAuthToken?.token, or NoToken for null
    devicePairingStatus, \* settings.devicePairingStatus
    captured,        \* per nonce, what the sendConnect() suspended in signing read
    lastReceived,    \* the device token received last, or NoToken
    identityData,    \* the DeviceIdentityData of the settings, as stored
    authParams,      \* the params of the last buildDeviceAuthPayload() call
    authPayload,     \* what that call returned
    connectionStateListeners, \* the waits whose listener is in GatewayClient.connectionStateListeners
    waitTimers,      \* the waits whose timeout is armed
    streams          \* per streaming send, how far it is and what became of it

vars ==
    <<ws, readyState, state, closed, connectNonce, connectSent,
      connectTimer, tickTimer, reconnectTimer, lastTick, backoffMs, pending,
      rpcTimers, signing, notes, lastErr, failures, lastOp,
      now, lastTickAt, tickIntervalMs, watchAt,
      chatEventListeners, abortHandlers, calls, event, finished,
      wsClient, gatewayToken, deviceIdentity, deviceAuthToken,
      devicePairingStatus, captured, lastReceived,
      identityData, authParams, authPayload,
      connectionStateListeners, waitTimers, streams>>

\* the clock is used by the keep-alive specification; elsewhere time is abstracted
\* (this.lastTick is set or not, the watchdog finds the tick overdue or not)
clock == <<now, lastTickAt, tickIntervalMs, watchAt>>

\* the chat router of the facade is used by the chat specification
facade == <<chatEventListeners, abortHandlers, calls, event, finished>>

\* the plugin settings and the facade's client handle are used by the pairing
\* specification; elsewhere a device identity is configured or not
settings ==
    <<wsClient, gatewayToken, deviceIdentity, deviceAuthToken,
      devicePairingStatus, captured, lastReceived>>

\* the stored identity record and the auth payload are used by the identity and
\* payload specifications; elsewhere an identity is named by a number
device == <<identityData, authParams, authPayload>>

\* the waits for a connection are used by the auto-connect specification
waits == <<connectionStateListeners, waitTimers, streams>>

NoErr == [code |-> "<none>", message |-> "<none>"]

\* the client's fields as one record, with the microtask queue of the running task
Pack ==
    [ws |-> ws, readyState |-> readyState,
     state |-> state, closed |-> closed, connectNonce |-> connectNonce,
     connectSent |-> connectSent, connectTimer |-> connectTimer,
     tickTimer |-> tickTimer, reconnectTimer |-> reconnectTimer,
     lastTick |-> lastTick, backoffMs |-> backoffMs, pending |-> pending,
     rpcTimers |-> rpcTimers, signing |-> signing,
     notes |-> <<>>, lastErr |-> NoErr, failures |-> failures, micro |-> <<>>]

CommitFields(c) ==
    /\ ws' = c.ws
    /\ readyState' = c.readyState
    /\ state' = c.state
    /\ closed' = c.closed
    /\ connectNonce' = c.connectNonce
    /\ connectSent' = c.connectSent
    /\ connectTimer' = c.connectTimer
    /\ tickTimer' = c.tickTimer
    /\ reconnectTimer' = c.reconnectTimer
    /\ lastTick' = c.lastTick
    /\ backoffMs' = c.backoffMs
    /\ pending' = c.pending
    /\ rpcTimers' = c.rpcTimers
    /\ signing' = c.signing
    /\ notes' = c.notes
    /\ lastErr' = c.lastErr
    /\ failures' = c.failures

CommitClient(c) ==
    CommitFields(c) /\ UNCHANGED clock /\ UNCHANGED settings /\ UNCHANGED device
    /\ UNCHANGED waits

CommitHandshake(c) ==
    CommitFields(c) /\ UNCHANGED clock /\ UNCHANGED facade /\ UNCHANGED device
    /\ UNCHANGED waits

Commit(c) == CommitClient(c) /\ UNCHANGED facade

Note(c, cb, arg) ==
    [c EXCEPT !.notes =
        Append(@, [cb |-> cb, val |-> arg, from |-> c.state,
                   pend |-> {p.id : p \in c.pending}])]

(* ---- the WebSocket object ---- *)
Live(rs) == rs \in {"CONNECTING", "OPEN"}

\* WebSocket.close(code): a live socket starts closing, its close event comes later
WsClose(c, s, code) ==
    IF s # NoSocket /\ Live(c.readyState[s])
    THEN [Note(c, "close", code) EXCEPT !.readyState[s] = "CLOSING"]
    ELSE c

\* the close event: the socket is closed
WsClosed(c, s) == [c EXCEPT !.readyState[s] = "CLOSED"]

\* a socket object that is closed and that no suspended handshake names is garbage
Free(c, s) == c.readyState[s] = "CLOSED" /\ c.signing[s] = 0

HasFree(c) == \E s \in Sockets : Free(c, s)

NewSocket(c) == CHOOSE s \in Sockets : Free(c, s) /\ \A t \in 1..(s - 1) : ~Free(c, t)

(* ---- private methods ---- *)
SetState(c, s) ==
    IF c.state = s THEN c
    ELSE [Note(c, "onStateChange", s) EXCEPT !.state = s]

ClearTimers(c) ==
    [c EXCEPT !.connectTimer = FALSE, !.tickTimer = FALSE, !.reconnectTimer = FALSE]

RECURSIVE RejectAll(_, _)
RejectAll(c, ids) ==
    IF ids = {} THEN c
    ELSE LET i == CHOOSE j \in ids : \A k \in ids : j <= k
         IN  RejectAll(Note(c, "reject", i), ids \ {i})

Rep(n, x) == [i \in 1..n |-> x]

ConnectCatchTask == [k |-> "catch", err |-> LocalError, response |-> FALSE]

\* flushPending() without clearTimeout(p.timer)
FlushPendingKeepsTimers(c) ==
    LET ids == {p.id : p \in c.pending}
        nconn == Cardinality({p \in c.pending : p.method = "connect"})
    IN  [RejectAll(c, ids) EXCEPT !.pending = {},
                                      !.micro = @ \o Rep(nconn, ConnectCatchTask)]

\* flushPending()
FlushPending(c) ==
    LET ids == {p.id : p \in c.pending}
        nconn == Cardinality({p \in c.pending : p.method = "connect"})
    IN  [RejectAll(c, ids) EXCEPT !.pending = {},
                                      !.rpcTimers = @ \ ids,
                                      !.micro = @ \o Rep(nconn, ConnectCatchTask)]

ScheduleReconnect(c) ==
    IF c.closed THEN c
    ELSE LET c1 == ClearTimers(c)
         IN  [Note(c1, "reconnectIn", c.backoffMs) EXCEPT
                        !.backoffMs = Min(c.backoffMs * 2, BACKOFF_CEIL),
                        !.reconnectTimer = TRUE,
                        !.failures = Min(@ + 1, FailCap)]

QueueConnectTimeout(c) == [c EXCEPT !.connectTimer = TRUE]

StartTickWatch(c) == [c EXCEPT !.tickTimer = TRUE]

\* connect(); throws: new WebSocket(url) raised
Connect(c, throws) ==
    LET c1 == IF c.ws # NoSocket
              THEN [WsClose(c, c.ws, CLOSE_NOCODE) EXCEPT !.ws = NoSocket]
              ELSE c
        c2 == [c1 EXCEPT !.connectNonce = NoNonce, !.connectSent = FALSE]
        c3 == SetState(c2, "connecting")
        s == NewSocket(c)
    IN  IF throws
        THEN ScheduleReconnect(SetState(Note(c3, "webSocketThrew", 0), "disconnected"))
        ELSE [c3 EXCEPT !.ws = s, !.readyState[s] = "CONNECTING"]

\* an onopen that would take the open transport for a finished handshake
OnOpenConnected(c) == QueueConnectTimeout(SetState(c, "connected"))

\* ws.onopen
OnOpen(c) == QueueConnectTimeout(SetState(c, "authenticating"))

\* ws.onclose without the call of scheduleReconnect()
OnCloseNoReconnect(c) ==
    LET c1 == FlushPending([c EXCEPT !.ws = NoSocket])
    IN  SetState(c1, IF ~c1.closed THEN "reconnecting" ELSE "disconnected")

\* ws.onclose
OnClose(c) ==
    LET c1 == FlushPending([c EXCEPT !.ws = NoSocket])
    IN  IF ~c1.closed
        THEN ScheduleReconnect(SetState(c1, "reconnecting"))
        ELSE SetState(c1, "disconnected")

FreeId(c) ==
    CHOOSE i \in ReqIds :
        /\ i \notin {p.id : p \in c.pending} \cup c.rpcTimers
        /\ \A j \in 1..(i - 1) : j \in {p.id : p \in c.pending} \cup c.rpcTimers

HasFreeId(c) == \E i \in ReqIds : i \notin {p.id : p \in c.pending} \cup c.rpcTimers

\* the check of request() without the test of readyState
CanSendWithHandle(c) == c.ws # NoSocket

CanSend(c) == c.ws # NoSocket /\ c.readyState[c.ws] = "OPEN"

\* request() without `const timer = setTimeout(...)`
RequestWithNoTimer(c, method, nonce, params) ==
    LET id == FreeId(c)
    IN  [c EXCEPT !.pending = @ \cup {[id |-> id, method |-> method,
                                        sock |-> c.ws, nonce |-> nonce,
                                        params |-> params]}]

\* request(): the part after the readyState check; params: what the pairing
\* specification tells of the request's params
RequestWith(c, method, nonce, params) ==
    LET id == FreeId(c)
    IN  [c EXCEPT !.pending = @ \cup {[id |-> id, method |-> method,
                                        sock |-> c.ws, nonce |-> nonce,
                                        params |-> params]},
                  !.rpcTimers = @ \cup {id}]

Request(c, method, nonce) == RequestWith(c, method, nonce, NoParams)

\* sendConnect() from `await this.request("connect", ...)` on
SendConnectRequestWith(c, nonce, params) ==
    IF CanSend(c) THEN RequestWith(c, "connect", nonce, params)
    ELSE [c EXCEPT !.micro = Append(@, ConnectCatchTask)]

SendConnectRequest(c, nonce) == SendConnectRequestWith(c, nonce, NoParams)

\* sendConnect() up to the signing step; ident: a device identity is configured;
\* params: the params of the request that is sent at once when none is
SendConnectWith(c, ident, params) ==
    IF c.connectSent \/ c.connectNonce = NoNonce THEN c
    ELSE LET c1 == [c EXCEPT !.connectSent = TRUE, !.connectTimer = FALSE]
         IN  IF ident
             THEN [c1 EXCEPT !.signing[c.connectNonce] = @ + 1]
             ELSE SendConnectRequestWith(c1, c.connectNonce, params)

SendConnect(c, ident) == SendConnectWith(c, ident, NoParams)

\* the success path without `this.backoffMs = 1_000`
ConnectSuccessKeepsBackoff(c) ==
    SetState(StartTickWatch([c EXCEPT !.failures = 0, !.lastTick = TRUE]), "connected")

\* sendConnect(): the connect request resolved
ConnectSuccess(c) ==
    LET c1 == [c EXCEPT !.backoffMs = BACKOFF_FLOOR, !.failures = 0, !.lastTick = TRUE]
    IN  SetState(StartTickWatch(c1), "connected")

\* sendConnect(): the catch block
ConnectCatch(c, err) ==
    IF IsPairingRequired(err)
    THEN LET c1 == Note(SetState(c, "pairing_required"), "onPairingRequired", 0)
         IN  WsClose(c1, c1.ws, CLOSE_STOPPED)
    ELSE WsClose(Note(c, "onConnectError", 0), c.ws, CLOSE_POLICY)

RunTask(c, t) ==
    IF t.k = "success" THEN ConnectSuccess(c) ELSE ConnectCatch(c, t.err)

RECURSIVE RunMicroFrom(_, _, _)
RunMicroFrom(c, q, i) ==
    IF i > Len(q) THEN c ELSE RunMicroFrom(RunTask(c, q[i]), q, i + 1)

\* the continuations the task made runnable, run when its handler returns
RunMicro(c) == RunMicroFrom([c EXCEPT !.micro = <<>>], c.micro, 1)

\* handleResponse() without `clearTimeout(pending.timer)`
HandleResponseKeepsTimer(c, id, ok, err) ==
    IF ~\E p \in c.pending : p.id = id THEN c
    ELSE LET p == CHOOSE q \in c.pending : q.id = id
             c1 == [Note(c, IF ok THEN "resolve" ELSE "reject", id) EXCEPT
                             !.pending = @ \ {p}]
         IN  IF p.method # "connect" THEN c1
             ELSE IF ok THEN [c1 EXCEPT !.micro = Append(@, [k |-> "success", err |-> NoErr, response |-> TRUE])]
             ELSE [c1 EXCEPT !.micro = Append(@, [k |-> "catch", err |-> err, response |-> TRUE]),
                             !.lastErr = err]

\* handleResponse() taking the oldest pending entry instead of the one named by id
HandleResponseByPosition(c, id, ok, err) ==
    IF c.pending = {} THEN c
    ELSE LET p == CHOOSE q \in c.pending : \A r \in c.pending : q.id <= r.id
             c1 == [Note(c, IF ok THEN "resolve" ELSE "reject", p.id) EXCEPT
                             !.pending = @ \ {p},
                             !.rpcTimers = @ \ {p.id}]
         IN  IF p.method # "connect" THEN c1
             ELSE IF ok THEN [c1 EXCEPT !.micro = Append(@, [k |-> "success", err |-> NoErr, response |-> TRUE])]
             ELSE [c1 EXCEPT !.micro = Append(@, [k |-> "catch", err |-> err, response |-> TRUE]),
                             !.lastErr = err]

\* handleResponse()
HandleResponse(c, id, ok, err) ==
    IF ~\E p \in c.pending : p.id = id THEN c
    ELSE LET p == CHOOSE q \in c.pending : q.id = id
             c1 == [Note(c, IF ok THEN "resolve" ELSE "reject", id) EXCEPT
                             !.pending = @ \ {p},
                             !.rpcTimers = @ \ {id}]
         IN  IF p.method # "connect" THEN c1
             ELSE IF ok THEN [c1 EXCEPT !.micro = Append(@, [k |-> "success", err |-> NoErr, response |-> TRUE])]
             ELSE [c1 EXCEPT !.micro = Append(@, [k |-> "catch", err |-> err, response |-> TRUE]),
                             !.lastErr = err]

\* the timeout callback of request() taking every timeout for a failed handshake
RequestTimeoutFailsConnection(c, id) ==
    LET was == {p \in c.pending : p.id = id}
    IN  [Note(c, "reject", id) EXCEPT !.pending = @ \ was,
                                      !.rpcTimers = @ \ {id},
                                      !.micro = Append(@, ConnectCatchTask)]

\* the timeout callback of request() without `this.pending.delete(id)`
RequestTimeoutKeepsEntry(c, id) ==
    LET c1 == [Note(c, "reject", id) EXCEPT !.rpcTimers = @ \ {id}]
    IN  IF \E p \in c.pending : p.id = id /\ p.method = "connect"
        THEN [c1 EXCEPT !.micro = Append(@, ConnectCatchTask)]
        ELSE c1

\* the timeout callback of request()
RequestTimeout(c, id) ==
    LET was == {p \in c.pending : p.id = id}
        c1 == [Note(c, "reject", id) EXCEPT !.pending = @ \ was,
                                           !.rpcTimers = @ \ {id}]
    IN  IF \E p \in was : p.method = "connect"
        THEN [c1 EXCEPT !.micro = Append(@, ConnectCatchTask)]
        ELSE c1

\* nonce.trim(): the empty string is no nonce to sendConnect()
Trim(nonce) == IF nonce = BlankNonce THEN NoNonce ELSE nonce

\* handleEvent(): connect.challenge
HandleChallengeWith(c, nonce, ident, params) ==
    IF nonce = NoNonce THEN WsClose(c, c.ws, CLOSE_POLICY)
    ELSE SendConnectWith([c EXCEPT !.connectNonce = Trim(nonce)], ident, params)

HandleChallenge(c, nonce, ident) == HandleChallengeWith(c, nonce, ident, NoParams)

(* ---- inbound frames ---- *)
\* the text of a frame, by what JSON.parse and the typeof tests make of it:
\* parse: "fail" (JSON.parse throws), "null", "scalar" or "object";
\* event: "absent", "nonString" or the string; id: AbsentId, NonStringId or the
\* correlation id; ok: "absent", "nonBoolean", "true" or "false"
AbsentId == 0
NonStringId == -1

MkFrame(parse, name, id, ok, payload) ==
    [parse |-> parse, event |-> name, id |-> id, ok |-> ok, payload |-> payload]

EventNames == {"connect.challenge", "tick", "chat", "other"}

\* the frames delivered besides challenges, ticks and well-formed responses
OtherFrames ==
    {MkFrame("fail", "absent", AbsentId, "absent", FALSE),
     MkFrame("null", "absent", AbsentId, "absent", FALSE),
     MkFrame("scalar", "absent", AbsentId, "absent", FALSE),
     MkFrame("object", "absent", AbsentId, "absent", FALSE),
     MkFrame("object", "nonString", AbsentId, "absent", TRUE),
     MkFrame("object", "absent", 1, "absent", FALSE),
     MkFrame("object", "absent", 1, "nonBoolean", FALSE),
     MkFrame("object", "nonString", NonStringId, "true", FALSE),
     MkFrame("object", "other", AbsentId, "absent", TRUE),
     MkFrame("object", "other", 1, "true", TRUE),
     MkFrame("object", "chat", AbsentId, "absent", FALSE),
     MkFrame("object", "chat", AbsentId, "absent", TRUE)}

\* handleEvent() for an event that is no connect.challenge
HandleEvent(c, f) ==
    IF f.event = "tick" THEN [c EXCEPT !.lastTick = TRUE]
    ELSE IF f.event = "chat" /\ f.payload THEN Note(c, "onChatEvent", 0)
    ELSE c

\* handleMessage() testing for a response frame before an event frame
HandleMessageResponseFirst(c, f) ==
    IF f.parse # "object" THEN c
    ELSE IF f.id \in ReqIds /\ f.ok \in {"true", "false"}
    THEN HandleResponse(c, f.id, f.ok = "true", Err(NoCode, "absent"))
    ELSE IF f.event \in EventNames THEN HandleEvent(c, f)
    ELSE c

\* handleMessage(): JSON.parse throws, or reading a field of null throws, or the
\* frame is dispatched by its fields
HandleMessage(c, f) ==
    IF f.parse # "object" THEN c
    ELSE IF f.event \in EventNames THEN HandleEvent(c, f)
    ELSE IF f.id \in ReqIds /\ f.ok \in {"true", "false"}
    THEN HandleResponse(c, f.id, f.ok = "true", Err(NoCode, "absent"))
    ELSE c

\* the frame is not parseable, or is neither an event frame nor a response frame,
\* or is an event of a name the client does not know
Unrecognized(f) ==
    \/ f.parse # "object"
    \/ f.event \notin EventNames /\ ~(f.id \in ReqIds /\ f.ok \in {"true", "false"})
    \/ f.event = "other"

(* ---- chat events (ChatEventPayload) ---- *)
Runs == 1..MaxRuns

ChatStates == {"delta", "final", "aborted", "error"}

\* a content block; text <<>> stands for a missing text and for "", which the
\* filter `c.type === "text" && c.text` treats alike
Block(type, text) == [type |-> type, text |-> text]

\* message: absent, or its content array
NoMessage == [has |-> FALSE, content |-> <<>>]
Message(content) == [has |-> TRUE, content |-> content]

Messages ==
    {NoMessage,
     Message(<<>>),
     Message(<<Block("text", <<"H","e","l">>)>>),
     Message(<<Block("text", <<"H","e","l">>), Block("text", <<"l","o">>)>>),
     Message(<<Block("text", <<"H","e","l","l","o">>), Block("image", <<"x">>),
               Block("text", <<"!">>)>>),
     Message(<<Block("image", <<"x">>), Block("text", <<>>)>>)}

\* errorMessage: absent, the empty string, or a text
ErrorMessageTexts == {"absent", "empty", "boom"}

ChatEvents ==
    {e \in [runId : Runs, state : ChatStates, message : Messages,
            errorMessage : ErrorMessageTexts] :
        /\ e.state \in {"delta", "final"} => e.errorMessage = "absent"
        /\ e.state \in {"error", "aborted"} => e.message = NoMessage
        /\ e.state = "aborted" => e.errorMessage = "absent"}

NoEvent == [runId |-> 0, state |-> "none", message |-> NoMessage, errorMessage |-> "absent"]

\* DEFAULT_SETTINGS, no client created, no handshake suspended
DefaultSettings ==
    /\ wsClient = FALSE
    /\ gatewayToken = NoToken
    /\ deviceIdentity = NoIdentity
    /\ deviceAuthToken = NoToken
    /\ devicePairingStatus = "unpaired"
    /\ captured = [s \in Sockets |-> NoCapture]
    /\ lastReceived = NoToken
    /\ identityData = NoData
    /\ authParams = NoAuthParams
    /\ authPayload = <<>>
    /\ connectionStateListeners = {}
    /\ waitTimers = {}
    /\ streams = [k \in Waits |-> NoStream]

(* ---- the state after construction ---- *)
Init ==
    /\ ws = NoSocket
    /\ readyState = [s \in Sockets |-> "CLOSED"]
    /\ state = "disconnected"
    /\ closed = FALSE
    /\ connectNonce = NoNonce
    /\ connectSent = FALSE
    /\ connectTimer = FALSE
    /\ tickTimer = FALSE
    /\ reconnectTimer = FALSE
    /\ lastTick = FALSE
    /\ backoffMs = BACKOFF_FLOOR
    /\ pending = {}
    /\ rpcTimers = {}
    /\ signing = [s \in Sockets |-> 0]
    /\ notes = <<>>
    /\ lastErr = NoErr
    /\ failures = 0
    /\ lastOp = "init"
    /\ now = 0
    /\ lastTickAt = 0
    /\ tickIntervalMs = DEFAULT_TICK_MS
    /\ watchAt = 0
    /\ chatEventListeners = {}
    /\ abortHandlers = {}
    /\ calls = <<>>
    /\ event = NoEvent
    /\ finished = {}
    /\ DefaultSettings

(* ---- the public methods ---- *)
\* start() without `if (this.closed) return`
StartIgnoresClosed(c, throws) == Connect(c, throws)

StartBody(c, throws) == IF c.closed THEN c ELSE Connect(c, throws)

\* start()
Start ==
    /\ closed \/ HasFree(Pack)
    /\ \E throws \in BOOLEAN :
         Commit(RunMicro(StartBody(Pack, throws)))
    /\ lastOp' = "start"

StopBody(c) ==
    LET c1 == ClearTimers([c EXCEPT !.closed = TRUE])
        c2 == IF c1.ws # NoSocket
              THEN [WsClose(c1, c1.ws, CLOSE_STOPPED) EXCEPT !.ws = NoSocket]
              ELSE c1
    IN  SetState(FlushPending(c2), "disconnected")

\* stop()
Stop ==
    /\ Commit(RunMicro(StopBody(Pack)))
    /\ lastOp' = "stop"

RestartBody(c, throws) ==
    LET c1 == [c EXCEPT !.closed = FALSE]
        c2 == IF c1.ws # NoSocket
              THEN [WsClose(c1, c1.ws, CLOSE_STOPPED) EXCEPT !.ws = NoSocket]
              ELSE c1
    IN  Connect(FlushPending(ClearTimers(c2)), throws)

\* restart()
Restart ==
    /\ HasFree(Pack)
    /\ \E throws \in BOOLEAN :
         Commit(RunMicro(RestartBody(Pack, throws)))
    /\ lastOp' = "restart"

\* request() called by the application (chat.send, chat.abort, chat.history, ...)
UserRequest ==
    /\ HasFreeId(Pack)
    /\ Commit(RunMicro(IF CanSend(Pack) THEN Request(Pack, "rpc", NoNonce)
                       ELSE Note(Pack, "notConnected", 0)))
    /\ lastOp' = "request"

(* ---- socket events ---- *)
\* the open event of socket s
SocketOpen(s) ==
    /\ readyState[s] = "CONNECTING"
    /\ Commit(RunMicro(OnOpen([Pack EXCEPT !.readyState[s] = "OPEN"])))
    /\ lastOp' = "open"

\* the close event of a socket the client asked to close
CloseEvent(s) ==
    /\ readyState[s] = "CLOSING"
    /\ Commit(RunMicro(OnClose(WsClosed(Pack, s))))
    /\ lastOp' = "close"

\* the close event of a socket the gateway or the network closed
NetDrop(s) ==
    /\ Live(readyState[s])
    /\ Commit(RunMicro(OnClose(WsClosed(Pack, s))))
    /\ lastOp' = "close"

\* a connect.challenge event on socket s; a nonce names the socket it was issued on;
\* a blank nonce is delivered before the handshake is triggered (afterwards
\* sendConnect() returns at its first guard whatever the nonce is)
Challenge(s) ==
    /\ readyState[s] = "OPEN"
    /\ HasFreeId(Pack)
    /\ \E nonce \in {NoNonce, BlankNonce, s}, ident \in BOOLEAN :
         /\ ident => signing[s] < MaxSigning
         /\ nonce = BlankNonce => ~connectSent
         /\ Commit(RunMicro(HandleChallenge(Pack, nonce, ident)))
    /\ lastOp' = "challenge"

\* signPayload settled (with a signature or an error) for a suspended sendConnect()
SignDone(n) ==
    /\ signing[n] > 0
    /\ HasFreeId(Pack)
    /\ Commit(RunMicro(SendConnectRequest([Pack EXCEPT !.signing[n] = @ - 1], n)))
    /\ lastOp' = "signed"

\* a response frame on socket s: for a request sent on s, or with an unknown id
Response(s) ==
    /\ readyState[s] = "OPEN"
    /\ \E id \in ReqIds, ok \in BOOLEAN, err \in ConnectErrors :
         /\ \A p \in pending : p.id = id => p.sock = s
         /\ (ok \/ ~\E p \in pending : p.id = id /\ p.method = "connect")
               => err = Err(NoCode, "absent")
         /\ Commit(RunMicro(HandleResponse(Note(Pack, "frame", [id |-> id, ok |-> ok]),
                                            id, ok, err)))
    /\ lastOp' = "response"

\* a tick event on socket s
Tick(s) ==
    /\ readyState[s] = "OPEN"
    /\ Commit(RunMicro([Pack EXCEPT !.lastTick = TRUE]))
    /\ lastOp' = "tick"

\* another frame on socket s
Frame(s) ==
    /\ readyState[s] = "OPEN"
    /\ \E f \in OtherFrames :
         /\ Commit(RunMicro(HandleMessage(Pack, f)))
         /\ lastOp' = IF Unrecognized(f) THEN "dropped" ELSE f.event

(* ---- timers ---- *)
\* the timeout of request() fires
RpcTimeout(id) ==
    /\ id \in rpcTimers
    /\ Commit(RunMicro(RequestTimeout(Pack, id)))
    /\ lastOp' = "rpcTimeout"

ConnectTimeoutBody(c) ==
    IF ~c.connectSent /\ CanSend(c) THEN WsClose(c, c.ws, CLOSE_POLICY) ELSE c

\* the handshake timeout fires
ConnectTimeout ==
    /\ connectTimer
    /\ Commit(RunMicro(ConnectTimeoutBody([Pack EXCEPT !.connectTimer = FALSE])))
    /\ lastOp' = "connectTimeout"

\* overdue: Date.now() - lastTick > tickIntervalMs * 2.5
TickWatchBody(c, overdue) ==
    IF c.closed \/ ~c.lastTick THEN c
    ELSE IF overdue THEN WsClose(c, c.ws, CLOSE_TICK) ELSE c

\* the keep-alive interval fires
TickWatch ==
    /\ tickTimer
    /\ \E overdue \in BOOLEAN : Commit(RunMicro(TickWatchBody(Pack, overdue)))
    /\ lastOp' = "tickWatch"

ReconnectBody(c, throws) ==
    LET c1 == [c EXCEPT !.reconnectTimer = FALSE]
    IN  IF ~c1.closed THEN Connect(c1, throws) ELSE c1

\* the reconnect timeout fires
ReconnectFire ==
    /\ reconnectTimer
    /\ HasFree(Pack)
    /\ \E throws \in BOOLEAN : Commit(RunMicro(ReconnectBody(Pack, throws)))
    /\ lastOp' = "reconnect"

Next ==
    \/ Start
    \/ Stop
    \/ Restart
    \/ UserRequest
    \/ \E s \in Sockets : SocketOpen(s)
    \/ \E s \in Sockets : CloseEvent(s)
    \/ \E s \in Sockets : NetDrop(s)
    \/ \E s \in Sockets : Challenge(s)
    \/ \E n \in Sockets : SignDone(n)
    \/ \E s \in Sockets : Response(s)
    \/ \E s \in Sockets : Tick(s)
    \/ \E id \in ReqIds : RpcTimeout(id)
    \/ ConnectTimeout
    \/ TickWatch
    \/ ReconnectFire

Spec == Init /\ [][Next]_vars

(* ---- the client receiving every kind of frame ---- *)
\* the frames of OtherFrames change no field of the client, so Spec, which
\* leaves them out, reaches the same client states
FrameNext ==
    \/ Next
    \/ \E s \in Sockets : Frame(s)

FrameSpec == Init /\ [][FrameNext]_vars

(* ---- the keep-alive watchdog with a clock ---- *)
Instant(i) == 500 * i

TickIntervals == {500, 1000, 2000}

Max(a, b) == IF a > b THEN a ELSE b

\* the period of the interval of startTickWatch()
WatchPeriod(T) == Max(T, MIN_WATCH_MS)

\* Date.now() - this.lastTick > this.tickIntervalMs * 2.5, at the boundary
OverdueAtThreshold(nowMs, last, T) == 2 * (nowMs - last) >= 5 * T

\* Date.now() - this.lastTick > this.tickIntervalMs * 2.5
Overdue(nowMs, last, T) == 2 * (nowMs - last) > 5 * T

\* the fields after construction
InitPack ==
    [ws |-> NoSocket, readyState |-> [s \in Sockets |-> "CLOSED"],
     state |-> "disconnected", closed |-> FALSE, connectNonce |-> NoNonce,
     connectSent |-> FALSE, connectTimer |-> FALSE, tickTimer |-> FALSE,
     reconnectTimer |-> FALSE, lastTick |-> FALSE, backoffMs |-> BACKOFF_FLOOR,
     pending |-> {}, rpcTimers |-> {}, signing |-> [s \in Sockets |-> 0],
     notes |-> <<>>, lastErr |-> NoErr, failures |-> 0, micro |-> <<>>]

\* the fields after start(), the open event, a connect.challenge and an ok
\* connect response
ConnectedPack ==
    LET c1 == Connect(InitPack, FALSE)
        c2 == OnOpen([c1 EXCEPT !.readyState[c1.ws] = "OPEN"])
        c3 == HandleChallenge(c2, c2.ws, FALSE)
        id == CHOOSE i \in ReqIds : \E p \in c3.pending : p.id = i
    IN  RunMicro(HandleResponse([c3 EXCEPT !.notes = <<>>], id, TRUE, Err(NoCode, "absent")))

IsState(c) ==
    /\ ws = c.ws
    /\ readyState = c.readyState
    /\ state = c.state
    /\ closed = c.closed
    /\ connectNonce = c.connectNonce
    /\ connectSent = c.connectSent
    /\ connectTimer = c.connectTimer
    /\ tickTimer = c.tickTimer
    /\ reconnectTimer = c.reconnectTimer
    /\ lastTick = c.lastTick
    /\ backoffMs = c.backoffMs
    /\ pending = c.pending
    /\ rpcTimers = c.rpcTimers
    /\ signing = c.signing
    /\ notes = c.notes
    /\ lastErr = c.lastErr
    /\ failures = c.failures

\* the connect response carried policy.tickIntervalMs = T and arrived at time 0
WatchInit ==
    /\ IsState(ConnectedPack)
    /\ lastOp = "response"
    /\ now = 0
    /\ lastTickAt = 0
    /\ tickIntervalMs \in TickIntervals
    /\ watchAt = WatchPeriod(tickIntervalMs)
    /\ chatEventListeners = {}
    /\ abortHandlers = {}
    /\ calls = <<>>
    /\ event = NoEvent
    /\ finished = {}
    /\ DefaultSettings

\* half a second passes; an armed interval fires when it is due
Advance ==
    /\ tickTimer => now < watchAt
    /\ \E i \in 1..MaxInstant : now = Instant(i - 1) /\ now' = Instant(i)
    /\ UNCHANGED <<ws, readyState, state, closed, connectNonce, connectSent,
                   connectTimer, tickTimer, reconnectTimer, lastTick, backoffMs,
                   pending, rpcTimers, signing, notes, lastErr, failures, lastOp,
                   lastTickAt, tickIntervalMs, watchAt>>
    /\ UNCHANGED facade
    /\ UNCHANGED settings
    /\ UNCHANGED device
    /\ UNCHANGED waits

\* a tick event on socket s at the present time
TimedTick(s) ==
    /\ readyState[s] = "OPEN"
    /\ CommitFields(RunMicro([Pack EXCEPT !.lastTick = TRUE]))
    /\ lastTickAt' = now
    /\ lastOp' = "tick"
    /\ UNCHANGED <<now, tickIntervalMs, watchAt>>
    /\ UNCHANGED facade
    /\ UNCHANGED settings
    /\ UNCHANGED device
    /\ UNCHANGED waits

\* the keep-alive interval fires at the present time
TimedTickWatch ==
    /\ tickTimer
    /\ now = watchAt
    /\ CommitFields(RunMicro(TickWatchBody(Pack, Overdue(now, lastTickAt, tickIntervalMs))))
    /\ watchAt' = watchAt + WatchPeriod(tickIntervalMs)
    /\ lastOp' = "tickWatch"
    /\ UNCHANGED <<now, lastTickAt, tickIntervalMs>>
    /\ UNCHANGED facade
    /\ UNCHANGED settings
    /\ UNCHANGED device
    /\ UNCHANGED waits

WatchNext ==
    \/ Advance
    \/ \E s \in Sockets : TimedTick(s)
    \/ TimedTickWatch
    \/ \E s \in Sockets : CloseEvent(s)

WatchSpec == WatchInit /\ [][WatchNext]_vars

(* ---- the chat router of the facade (gateway-client.ts) ---- *)
\* message: the text of an Error, or the chunk of onChunk
Call(run, cb, text) == [run |-> run, cb |-> cb, text |-> text]

NullText == [isNull |-> TRUE, chars |-> <<>>]
Text(chars) == [isNull |-> FALSE, chars |-> chars]

RECURSIVE Join(_)
Join(parts) == IF parts = <<>> THEN <<>> ELSE Head(parts) \o Join(Tail(parts))

IsTextBlock(c) == c.type = "text" /\ c.text # <<>>

\* extractTextFromChatMessage()
ExtractTextFromChatMessage(message) ==
    IF ~message.has THEN NullText
    ELSE LET parts == SelectSeq(message.content, IsTextBlock)
         IN  IF Len(parts) > 0
             THEN Text(Join([i \in 1..Len(parts) |-> parts[i].text]))
             ELSE NullText

\* event.errorMessage ?? "Unknown gateway error"
UnknownGatewayError ==
    <<"U","n","k","n","o","w","n"," ","g","a","t","e","w","a","y"," ","e","r","r","o","r">>

MessageChars(m) == IF m = "boom" THEN <<"b","o","o","m">> ELSE <<>>

\* event.errorMessage || "Unknown gateway error"
ErrorTextIfTruthy(m) ==
    IF m \in {"absent", "empty"} THEN UnknownGatewayError ELSE MessageChars(m)

ErrorText(m) == IF m = "absent" THEN UnknownGatewayError ELSE MessageChars(m)

\* the router's fields as one record
Router ==
    [listeners |-> chatEventListeners, handlers |-> abortHandlers, calls |-> calls]

CommitRouter(f) ==
    /\ chatEventListeners' = f.listeners
    /\ abortHandlers' = f.handlers
    /\ calls' = f.calls

OnChunk(f, run, chars) == [f EXCEPT !.calls = Append(@, Call(run, "onChunk", chars))]

\* an onDone that would forget every run
ListenerOnDoneClearsAll(f, run) ==
    [f EXCEPT !.listeners = {}, !.calls = Append(@, Call(run, "onDone", <<>>))]

\* the onDone registered for a run: forget the run, then the caller's onDone
ListenerOnDone(f, run) ==
    [f EXCEPT !.listeners = @ \ {run}, !.calls = Append(@, Call(run, "onDone", <<>>))]

\* the onError registered for a run: forget the run, then the caller's onError
ListenerOnError(f, run, text) ==
    [f EXCEPT !.listeners = @ \ {run}, !.calls = Append(@, Call(run, "onError", text))]

\* handleChatEvent() with the final case completing before it delivers the text
HandleChatEventDoneFirst(f, e) ==
    IF e.runId \notin f.listeners THEN f
    ELSE LET text == ExtractTextFromChatMessage(e.message)
         IN  CASE e.state = "delta" ->
                    IF ~text.isNull THEN OnChunk(f, e.runId, text.chars) ELSE f
               [] e.state = "final" ->
                    LET f1 == ListenerOnDone(f, e.runId)
                    IN  IF ~text.isNull THEN OnChunk(f1, e.runId, text.chars) ELSE f1
               [] e.state = "error" ->
                    ListenerOnError(f, e.runId, ErrorText(e.errorMessage))
               [] e.state = "aborted" -> ListenerOnDone(f, e.runId)
               [] OTHER -> f

\* handleChatEvent()
HandleChatEvent(f, e) ==
    IF e.runId \notin f.listeners THEN f
    ELSE LET text == ExtractTextFromChatMessage(e.message)
         IN  CASE e.state = "delta" ->
                    IF ~text.isNull THEN OnChunk(f, e.runId, text.chars) ELSE f
               [] e.state = "final" ->
                    ListenerOnDone(IF ~text.isNull THEN OnChunk(f, e.runId, text.chars)
                                   ELSE f, e.runId)
               [] e.state = "error" ->
                    ListenerOnError(f, e.runId, ErrorText(e.errorMessage))
               [] e.state = "aborted" -> ListenerOnDone(f, e.runId)
               [] OTHER -> f

\* abortHandler without `this.chatEventListeners.delete(runId)`
AbortHandlerKeepsListener(f, run) ==
    [f EXCEPT !.handlers = @ \ {run},
              !.calls = Append(@, Call(run, "onDone", <<>>))]

\* abortHandler of sendMessageStreaming(): forget the run, ask the gateway to
\* abort it, complete the caller
AbortHandler(f, run) ==
    [f EXCEPT !.listeners = @ \ {run}, !.handlers = @ \ {run},
              !.calls = Append(@, Call(run, "onDone", <<>>))]

\* chatAbort(): request("chat.abort", {sessionKey, runId}); its rejection is
\* swallowed by .catch
ChatAbort(c, run) ==
    IF CanSend(c) THEN Request(Note(c, "chatAbort", run), "rpc", NoNonce) ELSE c

\* the gateway issues a run id once: no streaming send has been given it before
\* (a run that was registered is registered still or has had a callback invoked)
Fresh(run) ==
    /\ run \notin chatEventListeners \cup abortHandlers
    /\ \A i \in 1..Len(calls) : calls[i].run # run

Terminal(e) == e.state \in {"final", "error", "aborted"}

\* sendMessageStreaming() after chat.send answered with run id `run`; signal:
\* the caller gave no AbortSignal, one that is live, or one already aborted
Register(run, signal) ==
    /\ Fresh(run)
    /\ Len(calls) < MaxCalls
    /\ HasFreeId(Pack)
    /\ LET f == [Router EXCEPT !.listeners = @ \cup {run}]
       IN  CASE signal = "none" -> CommitRouter(f) /\ CommitClient(Pack)
             [] signal = "live" ->
                  CommitRouter([f EXCEPT !.handlers = @ \cup {run}]) /\ CommitClient(Pack)
             [] signal = "aborted" ->
                  /\ CommitRouter(AbortHandler(f, run))
                  /\ CommitClient(RunMicro(ChatAbort(Pack, run)))
    /\ event' = NoEvent
    /\ UNCHANGED finished
    /\ lastOp' = "register"

\* the caller's AbortSignal fires
SignalAbort(run) ==
    /\ run \in abortHandlers
    /\ Len(calls) < MaxCalls
    /\ HasFreeId(Pack)
    /\ CommitRouter(AbortHandler(Router, run))
    /\ CommitClient(RunMicro(ChatAbort(Pack, run)))
    /\ event' = NoEvent
    /\ UNCHANGED finished
    /\ lastOp' = "abort"

\* a chat event frame with payload e on an open socket: opts.onChatEvent(e)
ChatEvent(e) ==
    /\ \E s \in Sockets : readyState[s] = "OPEN"
    /\ Len(calls) + 2 <= MaxCalls
    /\ CommitRouter(HandleChatEvent(Router, e))
    /\ CommitClient(Pack)
    /\ event' = e
    /\ finished' = IF Terminal(e) /\ e.runId \in chatEventListeners
                   THEN finished \cup {e.runId} ELSE finished
    /\ lastOp' = "chatEvent"

\* the client is connected, no run is registered
ChatInit ==
    /\ IsState(ConnectedPack)
    /\ lastOp = "response"
    /\ now = 0
    /\ lastTickAt = 0
    /\ tickIntervalMs = DEFAULT_TICK_MS
    /\ watchAt = 0
    /\ chatEventListeners = {}
    /\ abortHandlers = {}
    /\ calls = <<>>
    /\ event = NoEvent
    /\ finished = {}
    /\ DefaultSettings

ChatNext ==
    \/ \E run \in Runs, signal \in {"none", "live", "aborted"} : Register(run, signal)
    \/ \E run \in Runs : SignalAbort(run)
    \/ \E e \in ChatEvents : ChatEvent(e)
    \/ \E s \in Sockets : Response(s)
    \/ \E s \in Sockets : NetDrop(s)
    \/ \E id \in ReqIds : RpcTimeout(id)

ChatSpec == ChatInit /\ [][ChatNext]_vars

(* ---- streaming sends to their end ---- *)
\* Room in the record of calls for the terminal event of every registered run
\* (a chunk and a completion each), after `more` further calls
RoomFor(runs, more) == Len(calls) + more + 2 * runs <= MaxCalls

\* chat.send answered while the transport is open: the run is registered
StreamRegister(run, signal) ==
    /\ CanSend(Pack)
    /\ RoomFor(Cardinality(chatEventListeners) + 1, 0)
    /\ Register(run, signal)

StreamAbort(run) ==
    /\ RoomFor(Cardinality(chatEventListeners \ {run}), 1)
    /\ SignalAbort(run)

\* a chat event that is not the last of its run
StreamDelta(e) ==
    /\ ~Terminal(e)
    /\ RoomFor(Cardinality(chatEventListeners), 1)
    /\ ChatEvent(e)

\* the gateway ends a registered run: its terminal chat event arrives
StreamTerminal(e) ==
    /\ Terminal(e)
    /\ e.runId \in chatEventListeners
    /\ ChatEvent(e)

StreamNext ==
    \/ \E run \in Runs, signal \in {"none", "live", "aborted"} : StreamRegister(run, signal)
    \/ \E run \in Runs : StreamAbort(run)
    \/ \E e \in ChatEvents : StreamDelta(e)
    \/ \E e \in ChatEvents : StreamTerminal(e)
    \/ Stop

\* while the transport is open the gateway does end every registered run
StreamSpec ==
    /\ ChatInit
    /\ [][StreamNext]_vars
    /\ WF_vars(\E e \in ChatEvents : StreamTerminal(e))

(* ---- pairing: the settings, the facade's callbacks, the handshake's params ---- *)
\* resolved token that would let a stored device token win over the operator token
ResolvedTokenStoredFirst(token, stored) ==
    IF stored # NoToken THEN stored ELSE token

\* (!token && storedDeviceToken?.token) || token || undefined
ResolvedToken(token, stored) ==
    IF token = NoToken /\ stored # NoToken THEN stored
    ELSE IF token # NoToken THEN token
    ELSE NoToken

\* the auth block: omitted when no token is resolved
AuthBlock(resolved, stored) ==
    IF resolved # NoToken
    THEN [has |-> TRUE, token |-> resolved, deviceToken |-> stored]
    ELSE NoAuth

\* device block that would be sent whether or not signPayload returned a signature
DeviceBlockUnsigned(cap, nonce, signed) ==
    IF cap.identity # NoIdentity
    THEN [id |-> cap.identity, signedId |-> cap.identity, nonce |-> nonce,
          token |-> ResolvedToken(cap.token, cap.stored)]
    ELSE NoDevice

\* the device block: built when an identity is configured and signPayload
\* returned a signature over the payload (resolved token, nonce, device id)
DeviceBlock(cap, nonce, signed) ==
    IF cap.identity # NoIdentity /\ signed
    THEN [id |-> cap.identity, signedId |-> cap.identity, nonce |-> nonce,
          token |-> ResolvedToken(cap.token, cap.stored)]
    ELSE NoDevice

\* the params of the connect request of a sendConnect() that read cap
BuildParams(cap, nonce, signed) ==
    [auth |-> AuthBlock(ResolvedToken(cap.token, cap.stored), cap.stored),
     device |-> DeviceBlock(cap, nonce, signed),
     identity |-> cap.identity]

Capture == [token |-> gatewayToken, identity |-> deviceIdentity, stored |-> deviceAuthToken]

Settings ==
    [token |-> deviceAuthToken, status |-> devicePairingStatus, received |-> lastReceived]

CommitSettings(g) ==
    /\ deviceAuthToken' = g.token
    /\ devicePairingStatus' = g.status
    /\ lastReceived' = g.received

\* a handleDeviceTokenReceived() that would record the status and not the token
HandleDeviceTokenStatusOnly(g, token) ==
    [g EXCEPT !.status = "paired", !.received = token]

\* handleDeviceTokenReceived()
HandleDeviceTokenReceived(g, token) ==
    [g EXCEPT !.token = token, !.status = "paired", !.received = token]

\* opts.onPairingRequired of connectWebSocket()
OnPairingRequired(g) == [g EXCEPT !.status = "pending"]

\* connectWebSocket(): restart() of the client there is, or a new client and start()
ConnectWebSocket ==
    /\ HasFree(Pack)
    /\ failures < MaxPairFailures
    /\ CommitHandshake(RunMicro(IF wsClient THEN RestartBody(Pack, FALSE)
                                ELSE StartBody(Pack, FALSE)))
    /\ wsClient' = TRUE
    /\ UNCHANGED <<gatewayToken, deviceIdentity, deviceAuthToken,
                   devicePairingStatus, captured, lastReceived>>
    /\ lastOp' = "connectWebSocket"

\* disconnectWebSocket(): stop() and wsClient = null. The stopped client reaches
\* the facade no more (its pending map is flushed, a resumed sendConnect() fails
\* with not-connected, which is only logged): the next client starts from the
\* fields of a new object and the old sockets are garbage
DisconnectWebSocket ==
    /\ wsClient
    /\ CommitHandshake([InitPack EXCEPT !.notes = StopBody(Pack).notes])
    /\ wsClient' = FALSE
    /\ captured' = [s \in Sockets |-> NoCapture]
    /\ UNCHANGED <<gatewayToken, deviceIdentity, deviceAuthToken,
                   devicePairingStatus, lastReceived>>
    /\ lastOp' = "disconnect"

\* a connect.challenge event on socket s with the nonce issued for s
AuthChallenge(s) ==
    /\ readyState[s] = "OPEN"
    /\ HasFreeId(Pack)
    /\ deviceIdentity # NoIdentity => signing[s] < MaxSigning
    /\ LET c == RunMicro(HandleChallengeWith(Pack, s, deviceIdentity # NoIdentity,
                                             BuildParams(Capture, s, FALSE)))
       IN  /\ CommitHandshake(c)
           /\ captured' = IF c.signing[s] > signing[s]
                          THEN [captured EXCEPT ![s] = Capture]
                          ELSE captured
    /\ UNCHANGED <<wsClient, gatewayToken, deviceIdentity, deviceAuthToken,
                   devicePairingStatus, lastReceived>>
    /\ lastOp' = "challenge"

\* signPayload settled for the sendConnect() suspended on nonce n; signed: it
\* returned a signature (otherwise it threw)
AuthSignDone(n, signed) ==
    /\ signing[n] > 0
    /\ HasFreeId(Pack)
    /\ CommitHandshake(RunMicro(SendConnectRequestWith(
                                    [Pack EXCEPT !.signing[n] = @ - 1], n,
                                    BuildParams(captured[n], n, signed))))
    /\ captured' = [captured EXCEPT ![n] = NoCapture]
    /\ UNCHANGED <<wsClient, gatewayToken, deviceIdentity, deviceAuthToken,
                   devicePairingStatus, lastReceived>>
    /\ lastOp' = IF signed THEN "signed" ELSE "signFailed"

AuthErrors == {Err("PAIRING_REQUIRED", "absent"), Err(NoCode, "absent")}

\* the facade's callbacks the continuation of sendConnect() invokes: after an
\* ok response that carries auth.deviceToken, onDeviceTokenReceived when the
\* sendConnect() had read an identity; after a pairing-required failure,
\* onPairingRequired
AfterConnectResponse(g, p, ok, err, issued) ==
    IF ok
    THEN IF issued # NoToken /\ p.params.identity # NoIdentity
         THEN HandleDeviceTokenReceived(g, issued)
         ELSE g
    ELSE IF IsPairingRequired(err) THEN OnPairingRequired(g) ELSE g

\* the response to a pending connect request, on the socket it was sent on;
\* issued: hello.auth.deviceToken, or NoToken
AuthResponse(s) ==
    /\ readyState[s] = "OPEN"
    /\ \E p \in pending, ok \in BOOLEAN, err \in AuthErrors, issued \in Tokens \cup {NoToken} :
         /\ p.method = "connect" /\ p.sock = s
         /\ ok => err = Err(NoCode, "absent")
         /\ ~ok => issued = NoToken
         /\ CommitHandshake(RunMicro(HandleResponse(
                 Note(Pack, "frame", [id |-> p.id, ok |-> ok]), p.id, ok, err)))
         /\ CommitSettings(AfterConnectResponse(Settings, p, ok, err, issued))
    /\ UNCHANGED <<wsClient, gatewayToken, deviceIdentity, captured>>
    /\ lastOp' = "response"

\* the "Unpair Device" button, shown while the status is paired
Unpair ==
    /\ devicePairingStatus = "paired"
    /\ CommitHandshake(Pack)
    /\ CommitSettings([Settings EXCEPT !.token = NoToken, !.status = "unpaired"])
    /\ UNCHANGED <<wsClient, gatewayToken, deviceIdentity, captured>>
    /\ lastOp' = "unpair"

\* the "Regenerate" button, shown while there is an identity: the continuation
\* of generateDeviceIdentity()
Regenerate ==
    /\ deviceIdentity # NoIdentity
    /\ deviceIdentity < MaxIdentities
    /\ CommitHandshake(Pack)
    /\ deviceIdentity' = deviceIdentity + 1
    /\ CommitSettings([Settings EXCEPT !.token = NoToken, !.status = "unpaired"])
    /\ UNCHANGED <<wsClient, gatewayToken, captured>>
    /\ lastOp' = "regenerate"

\* ensureDeviceIdentity() on load, or the "Pair Device" button, without identity
GenerateIdentity ==
    /\ deviceIdentity = NoIdentity
    /\ CommitHandshake(Pack)
    /\ deviceIdentity' = 1
    /\ UNCHANGED <<wsClient, gatewayToken, deviceAuthToken, devicePairingStatus,
                   captured, lastReceived>>
    /\ lastOp' = "generate"

\* the user edits the gateway token of the settings
EditToken ==
    /\ CommitHandshake(Pack)
    /\ gatewayToken' = IF gatewayToken = NoToken THEN OperatorToken ELSE NoToken
    /\ UNCHANGED <<wsClient, deviceIdentity, deviceAuthToken, devicePairingStatus,
                   captured, lastReceived>>
    /\ lastOp' = "editToken"

PairNext ==
    \/ ConnectWebSocket
    \/ DisconnectWebSocket
    \/ \E s \in Sockets : SocketOpen(s)
    \/ \E s \in Sockets : CloseEvent(s)
    \/ \E s \in Sockets : AuthChallenge(s)
    \/ \E n \in Sockets, signed \in BOOLEAN : AuthSignDone(n, signed)
    \/ \E s \in Sockets : AuthResponse(s)
    \/ Unpair
    \/ Regenerate
    \/ GenerateIdentity
    \/ EditToken

PairSpec == Init /\ [][PairNext]_vars

(* ---- the device identity ---- *)
\* Characters of the base64 strings, by code: 0..63 the standard alphabet in
\* its order (62 is "+", 63 is "/"), then "-", "_" and "="
Minus == 64
Underscore == 65
Equals == 66

\* btoa(binary): three bytes make four characters, a rest of one or two bytes
\* is padded with "="
RECURSIVE Btoa(_)
Btoa(b) ==
    IF Len(b) = 0 THEN <<>>
    ELSE IF Len(b) = 1
    THEN <<b[1] \div 4, (b[1] % 4) * 16, Equals, Equals>>
    ELSE IF Len(b) = 2
    THEN <<b[1] \div 4, (b[1] % 4) * 16 + b[2] \div 16, (b[2] % 16) * 4, Equals>>
    ELSE <<b[1] \div 4, (b[1] % 4) * 16 + b[2] \div 16,
           (b[2] % 16) * 4 + b[3] \div 64, b[3] % 64>>
         \o Btoa(SubSeq(b, 4, Len(b)))

\* str.replace(/x/g, y)
Replace(str, x, y) == [i \in 1..Len(str) |-> IF str[i] = x THEN y ELSE str[i]]

\* str.replace(/=+$/g, "")
RECURSIVE StripPadding(_)
StripPadding(str) ==
    IF str # <<>> /\ str[Len(str)] = Equals
    THEN StripPadding(SubSeq(str, 1, Len(str) - 1))
    ELSE str

\* base64UrlEncode()
Base64UrlEncode(bytes) ==
    StripPadding(Replace(Replace(Btoa(bytes), 62, Minus), 63, Underscore))

\* "=".repeat(n)
RepeatEquals(n) == [i \in 1..n |-> Equals]

\* atob() rejects a string when, without up to two "=" at the end of a length
\* that is a multiple of four, it holds a character outside the alphabet or its
\* length is one more than a multiple of four
AtobData(str) ==
    IF Len(str) % 4 = 0 /\ Len(str) > 0 /\ str[Len(str)] = Equals
    THEN IF str[Len(str) - 1] = Equals
         THEN SubSeq(str, 1, Len(str) - 2)
         ELSE SubSeq(str, 1, Len(str) - 1)
    ELSE str

AtobAccepts(data) ==
    /\ Len(data) % 4 # 1
    /\ \A i \in 1..Len(data) : data[i] \in 0..63

\* the bytes of accepted data: four characters make three bytes, a rest of
\* two or three characters makes one or two, its surplus bits discarded
RECURSIVE AtobBytes(_)
AtobBytes(d) ==
    IF Len(d) = 0 THEN <<>>
    ELSE IF Len(d) = 2
    THEN <<d[1] * 4 + d[2] \div 16>>
    ELSE IF Len(d) = 3
    THEN <<d[1] * 4 + d[2] \div 16, (d[2] % 16) * 16 + d[3] \div 4>>
    ELSE <<d[1] * 4 + d[2] \div 16, (d[2] % 16) * 16 + d[3] \div 4,
           (d[3] % 4) * 64 + d[4]>>
         \o AtobBytes(SubSeq(d, 5, Len(d)))

\* base64UrlDecode(): ok is false when atob() throws
Base64UrlDecode(str) ==
    LET padded == Replace(Replace(str, Minus, 62), Underscore, 63)
                      \o RepeatEquals((4 - (Len(str) % 4)) % 4)
        data == AtobData(padded)
    IN  IF AtobAccepts(data)
        THEN [ok |-> TRUE, bytes |-> AtobBytes(data)]
        ELSE [ok |-> FALSE, bytes |-> <<>>]

\* hexEncode(): two digits for every byte, the digits by value
RECURSIVE HexEncode(_)
HexEncode(bytes) ==
    IF bytes = <<>> THEN <<>>
    ELSE <<Head(bytes) \div 16, Head(bytes) % 16>> \o HexEncode(Tail(bytes))

\* The digest and the key derivation are library functions: each is a function
\* of the bytes it is given and of nothing else, and that is all the model
\* keeps of it. A digest has two bytes here
RECURSIVE Mix(_, _)
Mix(bytes, seed) ==
    IF bytes = <<>> THEN seed
    ELSE (Mix(SubSeq(bytes, 1, Len(bytes) - 1), seed) * 31 + bytes[Len(bytes)] + 1) % 256

Digest(bytes) == <<Mix(bytes, 7), Mix(bytes, 101)>>

\* sha256Hex()
Sha256Hex(bytes) == HexEncode(Digest(bytes))

\* ed.getPublicKeyAsync()
GetPublicKey(secret) == [i \in 1..Len(secret) |-> (secret[i] * 3 + Mix(secret, i)) % 256]

\* ed.utils.randomSecretKey(): the keys drawn
KeyBytes == {77, 255}
SecretKeys == [1..KeyLen -> KeyBytes]

\* Date.now()
CreationTimes == {1, 2}

\* generateDeviceIdentity() with the secret key and the time it drew
GenerateDeviceIdentityFrom(secret, time) ==
    LET publicKeyBytes == GetPublicKey(secret)
    IN  [has |-> TRUE,
         deviceId |-> Sha256Hex(publicKeyBytes),
         publicKey |-> Base64UrlEncode(publicKeyBytes),
         privateKey |-> Base64UrlEncode(secret),
         createdAtMs |-> time]

\* a validation that would trust the stored deviceId
ValidateTrustsDeviceId(data) == data

\* validateDeviceIdentity() of data whose publicKey decodes
ValidateDeviceIdentity(data) ==
    LET derivedId == Sha256Hex(Base64UrlDecode(data.publicKey).bytes)
    IN  IF derivedId # data.deviceId
        THEN [data EXCEPT !.deviceId = derivedId]
        ELSE data

\* the identity actions leave the client, the router and the settings alone
IdentityOnly ==
    /\ CommitFields(Pack)
    /\ UNCHANGED clock
    /\ UNCHANGED facade
    /\ UNCHANGED settings
    /\ UNCHANGED <<authParams, authPayload>>
    /\ UNCHANGED waits

\* a new identity is generated and stored (first run, Pair, Regenerate)
GenerateDeviceIdentity ==
    /\ \E secret \in SecretKeys, time \in CreationTimes :
         identityData' = GenerateDeviceIdentityFrom(secret, time)
    /\ IdentityOnly
    /\ lastOp' = "generateIdentity"

\* the stored deviceId as the plugin finds it on load after the data file was
\* changed: all zeros, or the digest of another key
OtherIds == {<<0, 0, 0, 0>>, Sha256Hex(<<1>>)}

EditDeviceId ==
    /\ identityData.has
    /\ \E id \in OtherIds : identityData' = [identityData EXCEPT !.deviceId = id]
    /\ IdentityOnly
    /\ lastOp' = "editDeviceId"

\* the stored publicKey after the data file was changed: a string atob()
\* rejects for its length, one with surplus bits, one in the standard alphabet
\* with padding
OtherKeys == {<<5>>, <<0, 1>>, <<62, 63, 5, Equals>>}

EditPublicKey ==
    /\ identityData.has
    /\ \E key \in OtherKeys : identityData' = [identityData EXCEPT !.publicKey = key]
    /\ IdentityOnly
    /\ lastOp' = "editPublicKey"

\* ensureDeviceIdentity() with a stored identity: validateDeviceIdentity(), and
\* the result is stored when its deviceId differs; the repair is logged. When
\* atob() throws nothing is returned
EnsureDeviceIdentity ==
    /\ identityData.has
    /\ IF Base64UrlDecode(identityData.publicKey).ok
       THEN LET validated == ValidateDeviceIdentity(identityData)
            IN  /\ identityData' = IF validated.deviceId # identityData.deviceId
                                   THEN validated
                                   ELSE identityData
                /\ lastOp' = IF validated.deviceId # identityData.deviceId
                             THEN "repaired"
                             ELSE "validated"
       ELSE /\ identityData' = identityData
            /\ lastOp' = "validateThrew"
    /\ IdentityOnly

IdentityNext ==
    \/ GenerateDeviceIdentity
    \/ EditDeviceId
    \/ EditPublicKey
    \/ EnsureDeviceIdentity

IdentitySpec == Init /\ [][IdentityNext]_vars

(* ---- the device auth payload ---- *)
\* strings are sequences of characters
DecimalDigits == <<"0", "1", "2", "3", "4", "5", "6", "7", "8", "9">>

\* String(n) of a time in ms
RECURSIVE NumberToString(_)
NumberToString(n) ==
    IF n < 10 THEN <<DecimalDigits[n + 1]>>
    ELSE NumberToString(n \div 10) \o <<DecimalDigits[(n % 10) + 1]>>

\* parts.join(sep)
RECURSIVE JoinWith(_, _)
JoinWith(parts, sep) ==
    IF parts = <<>> THEN <<>>
    ELSE IF Len(parts) = 1 THEN parts[1]
    ELSE parts[1] \o sep \o JoinWith(Tail(parts), sep)

\* a payload that would leave out the field of a null token
BuildDeviceAuthPayloadSkipsNull(params) ==
    JoinWith(<<<<"v", "2">>, params.deviceId, params.clientId, params.clientMode,
               params.role, JoinWith(params.scopes, <<",">>),
               NumberToString(params.signedAtMs)>>
             \o (IF params.token.isNull THEN <<>> ELSE <<params.token.chars>>)
             \o <<params.nonce>>,
             <<"|">>)

\* buildDeviceAuthPayload()
BuildDeviceAuthPayload(params) ==
    LET scopes == JoinWith(params.scopes, <<",">>)
        token == IF params.token.isNull THEN <<>> ELSE params.token.chars
    IN  JoinWith(<<<<"v", "2">>, params.deviceId, params.clientId, params.clientMode,
                   params.role, scopes, NumberToString(params.signedAtMs), token,
                   params.nonce>>,
                 <<"|">>)

ScopeA == <<"s", "a">>
ScopeB == <<"s", "b">>

\* the calls made: the scopes none, one, two in either order; the token null,
\* empty or not; times of one, two and four digits
PayloadParams ==
    [deviceId : {<<"d", "1">>, <<>>},
     clientId : {<<"c">>},
     clientMode : {<<"w">>},
     role : {<<"o", "p">>},
     scopes : {<<>>, <<ScopeA>>, <<ScopeA, ScopeB>>, <<ScopeB, ScopeA>>},
     signedAtMs : {0, 70, 1205},
     token : {[isNull |-> TRUE, chars |-> <<>>], [isNull |-> FALSE, chars |-> <<>>],
              [isNull |-> FALSE, chars |-> <<"t", "k">>]},
     nonce : {<<"n">>, <<"n", "2">>}]

\* a call of buildDeviceAuthPayload()
BuildPayload ==
    /\ \E params \in PayloadParams :
         /\ authParams' = params
         /\ authPayload' = BuildDeviceAuthPayload(params)
    /\ CommitFields(Pack)
    /\ UNCHANGED clock
    /\ UNCHANGED facade
    /\ UNCHANGED settings
    /\ UNCHANGED identityData
    /\ UNCHANGED waits
    /\ lastOp' = "buildPayload"

PayloadNext == BuildPayload

PayloadSpec == Init /\ [][PayloadNext]_vars

\* calls whose strings may hold the characters the payload is joined with: the
\* deviceId, clientId, token and nonce with or without "|", one scope with ","
\* or two scopes
DelimitedParams ==
    [deviceId : {<<"a">>, <<"a", "|", "b">>},
     clientId : {<<"c">>, <<"b", "|", "c">>},
     clientMode : {<<"w">>},
     role : {<<"o", "p">>},
     scopes : {<<<<"x", ",", "y">>>>, <<<<"x">>, <<"y">>>>},
     signedAtMs : {0, 70},
     token : {[isNull |-> TRUE, chars |-> <<>>], [isNull |-> FALSE, chars |-> <<>>],
              [isNull |-> FALSE, chars |-> <<"t">>],
              [isNull |-> FALSE, chars |-> <<"t", "|", "n">>]},
     nonce : {<<"n">>, <<"n", "|", "n">>}]

\* a call of buildDeviceAuthPayload() with such strings
BuildDelimitedPayload ==
    /\ \E params \in DelimitedParams :
         /\ authParams' = params
         /\ authPayload' = BuildDeviceAuthPayload(params)
    /\ CommitFields(Pack)
    /\ UNCHANGED clock
    /\ UNCHANGED facade
    /\ UNCHANGED settings
    /\ UNCHANGED identityData
    /\ UNCHANGED waits
    /\ lastOp' = "buildDelimited"

DelimitedNext == BuildDelimitedPayload

DelimitedSpec == Init /\ [][DelimitedNext]_vars

(* ---- what the last task did ---- *)
PendingIds == {p.id : p \in pending}

Notified(cb) == {i \in 1..Len(notes) : notes[i].cb = cb}

StateNotes == Notified("onStateChange")

Entered(s) == \E i \in StateNotes : notes[i].val = s

Threw == Notified("webSocketThrew") # {}

\* C1: at every moment at most one transport opened by the client is live (not
\* closed and not asked to close), and the client's transport handle refers to it
C1_OneLiveTransport ==
    \A s \in Sockets : Live(readyState[s]) => ws = s

ApiCall == {"start", "stop", "restart"}

\* C2: after a connect response failed with a pairing-required indication the
\* state stays pairing_required, no reconnect is scheduled, no transport is opened
\* and no further pairing notification is emitted, until an explicit API call
C2_PairingWaitsForRestart ==
    [][(state = "pairing_required" /\ lastOp' \notin ApiCall)
         => /\ state' = "pairing_required"
            /\ Notified("reconnectIn")' = {}
            /\ Notified("onPairingRequired")' = {}
            /\ \A s \in Sockets : readyState'[s] = "CONNECTING" => readyState[s] = "CONNECTING"]_vars

\* the error objects of ConnectErrors that indicate pairing, listed by hand: the
\* two codes, and the texts holding "pairing required" in any letter case
PairingIndications ==
    {Err("PAIRING_REQUIRED", "absent"), Err("PAIRING_REQUIRED", "mixed"),
     Err("DEVICE_IDENTITY_REQUIRED", "unauthorized"),
     Err("UNAUTHORIZED", "upper"), Err(NoCode, "mixed")}

ConnectResponseFailed == lastOp = "response" /\ lastErr # NoErr

PairingOutcome ==
    /\ state = "pairing_required"
    /\ Cardinality(Notified("onPairingRequired")) = 1
    /\ Notified("onConnectError") = {}

GenericOutcome ==
    /\ Cardinality(Notified("onConnectError")) = 1
    /\ Notified("onPairingRequired") = {}
    /\ ~Entered("pairing_required")
    /\ \E i \in Notified("close") : notes[i].val = CLOSE_POLICY

\* C3: a failed connect response is handled as pairing-required exactly when its
\* code is PAIRING_REQUIRED or DEVICE_IDENTITY_REQUIRED or its message contains
\* "pairing required" in any case: then authenticating -> pairing_required and
\* onPairingRequired once; otherwise onConnectError once and an abnormal close
C3_PairingClassification ==
    ConnectResponseFailed =>
        IF lastErr \in PairingIndications
        THEN /\ PairingOutcome
             /\ \A i \in StateNotes : notes[i].val = "pairing_required"
                                         /\ notes[i].from = "authenticating"
        ELSE GenericOutcome

C3_Witness ==
    /\ ConnectResponseFailed
    /\ lastErr = Err("UNAUTHORIZED", "upper")
    /\ Entered("pairing_required")

SettleNotes == Notified("resolve") \cup Notified("reject")

\* C4: a registered request is settled at most once, by exactly one of resolve and
\* reject, and it leaves the pending map in the step that settles it: whoever
\* settles an id finds it pending, nothing settles it twice, and a per-request
\* timer is armed exactly for the pending entries
C4_SettledOnce ==
    /\ rpcTimers = PendingIds
    /\ \A i \in SettleNotes :
          /\ notes[i].val \in notes[i].pend
          /\ notes[i].val \notin PendingIds
          /\ \A j \in SettleNotes : notes[j].val = notes[i].val => j = i

C4_Witness ==
    /\ lastOp = "rpcTimeout"
    /\ Cardinality(Notified("reject")) = 1
    /\ pending # {}

NoTimerArmed == ~connectTimer /\ ~tickTimer /\ ~reconnectTimer

\* C5: from stop() until restart() the state is disconnected, the pending map is
\* empty and no connect-timeout, keep-alive or reconnect timer is armed
C5_StopIsTerminal ==
    closed => state = "disconnected" /\ pending = {} /\ rpcTimers = {} /\ NoTimerArmed

ClientFields ==
    <<ws, readyState, state, closed, connectNonce, connectSent, connectTimer,
      tickTimer, reconnectTimer, lastTick, backoffMs, pending, rpcTimers, signing>>

C7_RestartStartsFresh ==
    (lastOp = "restart" /\ ~Threw)
        => /\ ~closed
           /\ pending = {} /\ rpcTimers = {}
           /\ NoTimerArmed
           /\ state = "connecting"
           /\ ws # NoSocket
           /\ readyState[ws] = "CONNECTING"

Pow2(n) == 2 ^ n

DelayOfFailure(k) == Min(BACKOFF_FLOOR * Pow2(k - 1), BACKOFF_CEIL)

\* C8: the delay of the k-th reconnect scheduled since the last successful connect
\* response is min(1000 * 2^(k-1), 30000); a successful connect response puts the
\* next delay back to 1000; the delay stays within [1000, 30000]
C8_BackoffDelay ==
    /\ backoffMs = DelayOfFailure(failures + 1)
    /\ backoffMs >= BACKOFF_FLOOR /\ backoffMs <= BACKOFF_CEIL
    /\ Cardinality(Notified("reconnectIn")) <= 1
    /\ \A i \in Notified("reconnectIn") :
          /\ failures >= 1
          /\ notes[i].val = DelayOfFailure(failures)
    /\ Entered("connected") => backoffMs = BACKOFF_FLOOR /\ failures = 0

C8_Witness ==
    /\ lastOp = "close"
    /\ \E i \in Notified("reconnectIn") : notes[i].val = BACKOFF_CEIL
    /\ failures = FailCap

\* an armed reconnect timeout fires unless it is cleared
FairSpec == Spec /\ WF_vars(ReconnectFire)

\* setTimeout(() => {...}, timeoutMs) in request(): an armed request timeout
\* fires unless it is cleared.  This is WF_vars(RpcTimeout(id)) written out,
\* with ENABLED <<RpcTimeout(id)>>_vars replaced by its guard id \in rpcTimers
\* (the callback always takes id out of rpcTimers, so the step is never a
\* stuttering one).
TimerFires(id) == <>[](id \in rpcTimers) => []<><<RpcTimeout(id)>>_vars

TimeoutSpec == Spec /\ \A id \in ReqIds : TimerFires(id)

NotStartedYet ==
    /\ state = "disconnected"
    /\ \A s \in Sockets : readyState[s] = "CLOSED"
    /\ failures = 0

\* C9: a transport close while not stopped leaves the state reconnecting with the
\* reconnect timer armed; an armed reconnect timer goes away only by stop(), by
\* restart() or by firing, and firing starts a connection attempt (state
\* connecting, a transport connecting); while it stays armed it does fire, as
\* long as the model has a socket object left to open; and a started client that
\* is not stopped is never without both a transport and an armed reconnect timer
C9_ReconnectsAfterClose ==
    /\ []((lastOp = "close" /\ ~closed)
            => state = "reconnecting" /\ reconnectTimer /\ ws = NoSocket)
    /\ []((~closed /\ ws = NoSocket /\ ~reconnectTimer) => NotStartedYet)
    /\ [][(reconnectTimer /\ ~reconnectTimer')
            => \/ lastOp' \in {"stop", "restart"}
               \/ /\ lastOp' = "reconnect"
                  /\ state' = "connecting"
                  /\ ws' # NoSocket
                  /\ readyState'[ws'] = "CONNECTING"]_vars
    /\ (reconnectTimer ~> (lastOp = "reconnect" \/ ~reconnectTimer \/ ~HasFree(Pack)))

C9_Witness ==
    /\ lastOp = "close"
    /\ ~closed
    /\ state = "reconnecting"
    /\ reconnectTimer
    /\ failures >= 2

\* C10: on every teardown the pending requests are rejected before the new state
\* is notified: no listener is told reconnecting, disconnected or connecting
\* while a request is still pending
C10_FlushedBeforeNotify ==
    \A i \in StateNotes :
        notes[i].val \in {"reconnecting", "disconnected", "connecting"}
            => notes[i].pend = {}

ConnectRequests == {p \in pending : p.method = "connect"}

\* C11: a connect request is sent only on the transport whose challenge issued
\* its nonce (a handshake suspended in signing never sends on a transport that
\* replaced its own), and never on a transport on which a connect request is
\* already awaiting its response (the least that "at most one per transport"
\* asks for)
C11_OneConnectPerTransport ==
    [][\A p \in ConnectRequests' \ ConnectRequests :
           /\ ~\E q \in ConnectRequests : q.sock = p.sock
           /\ p.nonce = p.sock]_vars

ClosedByTimer ==
    /\ \E i \in Notified("close") : notes[i].val = CLOSE_POLICY
    /\ ws # NoSocket /\ readyState[ws] = "CLOSING"

\* C12: the open event makes the state authenticating and arms the handshake
\* timer; when the timer fires it closes the transport if the transport is open
\* and no connect request was triggered, and it never closes a transport on which
\* the connect request has been sent; sending the connect request cancels it
C12_HandshakeTimer ==
    /\ [][lastOp' = "open" => state' = "authenticating" /\ connectTimer']_vars
    /\ [][lastOp' = "connectTimeout"
            => /\ (~connectSent /\ CanSend(Pack)) => ClosedByTimer'
               /\ (\E p \in ConnectRequests : p.sock = ws)
                     => Notified("close")' = {}]_vars
    /\ [][(ConnectRequests' \ ConnectRequests # {}) => ~connectTimer']_vars

\* C13: whenever the state is connected the transport handle is set (and open),
\* the keep-alive watchdog is armed, neither the reconnect timer nor the handshake
\* timer is armed, and the backoff delay is at its floor
C13_ConnectedShape ==
    state = "connected"
        => /\ ws # NoSocket
           /\ tickTimer
           /\ ~reconnectTimer
           /\ ~connectTimer
           /\ backoffMs = BACKOFF_FLOOR

TickAge == now - lastTickAt

TransportOpen == ws # NoSocket /\ readyState[ws] = "OPEN"

ClosedByWatchdog == \E i \in Notified("close") : notes[i].val = CLOSE_TICK

C15_ResponseMatchedById ==
    [][lastOp' = "response"
         => LET f == notes'[1].val
            IN  /\ notes'[1].cb = "frame"
                /\ IF f.id \in PendingIds
                   THEN /\ pending' = {p \in pending : p.id # f.id}
                        /\ rpcTimers' = rpcTimers \ {f.id}
                        /\ Cardinality(SettleNotes') = 1
                        /\ \A i \in SettleNotes' :
                              /\ notes'[i].val = f.id
                              /\ notes'[i].cb = IF f.ok THEN "resolve" ELSE "reject"
                   ELSE /\ UNCHANGED ClientFields
                        /\ Len(notes') = 1]_vars

C15_Witness ==
    /\ lastOp = "response"
    /\ \E i \in Notified("resolve") : notes[i].val = 2
    /\ PendingIds = {1}

TimedOut == {notes[i].val : i \in Notified("reject")}

\* C16: when the timeout of a request fires the request is rejected and leaves
\* the pending map, with its timer gone; a response with that id that arrives
\* next settles nothing and changes nothing
C16_TimeoutThenLateResponse ==
    /\ [][lastOp' = "rpcTimeout"
            => /\ Cardinality(Notified("reject")') = 1
               /\ Notified("resolve")' = {}
               /\ \A i \in Notified("reject")' :
                     /\ notes'[i].val \in PendingIds
                     /\ pending' = {p \in pending : p.id # notes'[i].val}
                     /\ rpcTimers' = rpcTimers \ {notes'[i].val}]_vars
    /\ [][(lastOp = "rpcTimeout" /\ lastOp' = "response"
             /\ notes'[1].val.id \in TimedOut)
            => /\ SettleNotes' = {}
               /\ UNCHANGED ClientFields]_vars

C16_Witness ==
    /\ lastOp = "rpcTimeout"
    /\ TimedOut = {1}
    /\ PendingIds = {2}
    /\ TransportOpen

\* C17: request() called while there is no open transport (no handle, or a
\* socket that is connecting, closing or closed) fails at once with the
\* not-connected error and has no effect: nothing is registered, no timer is
\* armed, nothing is sent; with an open transport it registers one entry
C17_RequestNeedsOpenTransport ==
    [][lastOp' = "request"
         => IF TransportOpen
            THEN /\ Notified("notConnected")' = {}
                 /\ Cardinality(pending' \ pending) = 1
                 /\ pending \subseteq pending'
                 /\ rpcTimers' = PendingIds'
            ELSE /\ Cardinality(Notified("notConnected")') = 1
                 /\ Len(notes') = 1
                 /\ UNCHANGED ClientFields]_vars

C17_Witness ==
    /\ lastOp = "request"
    /\ Notified("notConnected") # {}
    /\ ws # NoSocket
    /\ readyState[ws] = "CONNECTING"

RpcIds == {p.id : p \in {q \in pending : q.method # "connect"}}

ConnectionFields ==
    <<ws, readyState, state, closed, connectNonce, connectSent, connectTimer,
      tickTimer, reconnectTimer, lastTick, backoffMs, signing>>

\* C18: a failure response to, or the timeout of, a request other than connect
\* rejects that call only: the connection state, the transport, the connection
\* timers and every other pending request stay as they are, and no other
\* callback runs
C18_RpcFailureIsLocal ==
    [][\A id \in RpcIds :
          (/\ lastOp' \in {"response", "rpcTimeout"}
           /\ \E i \in Notified("reject")' : notes'[i].val = id)
            => /\ UNCHANGED ConnectionFields
               /\ pending' = {p \in pending : p.id # id}
               /\ rpcTimers' = rpcTimers \ {id}
               /\ \A i \in 1..Len(notes') :
                     \/ notes'[i].cb = "frame"
                     \/ notes'[i].cb = "reject" /\ notes'[i].val = id]_vars

C18_Witness ==
    /\ lastOp = "response"
    /\ state = "connected"
    /\ TimedOut = {1}
    /\ PendingIds = {2}
    /\ tickTimer

\* C19: a frame that is not parseable, or is neither an event frame nor a
\* response frame, or is an event of an unknown name, changes nothing of the
\* client (state, transport, pending map, timers, last tick) and calls nothing
C19_MalformedFrameDropped ==
    [][lastOp' = "dropped" => UNCHANGED ClientFields /\ notes' = <<>>]_vars

C19_Witness ==
    /\ lastOp = "dropped"
    /\ state = "connected"
    /\ 1 \in PendingIds

Registered == event'.runId \in chatEventListeners

Extracted == ExtractTextFromChatMessage(event'.message)

\* C20 as stated: for a registered run every delta event invokes onChunk with the
\* event's extracted text; a final event invokes onChunk once more with its text
\* and then onDone, and removes the registration
C20_EveryDeltaChunks ==
    [][(lastOp' = "chatEvent" /\ Registered)
         => /\ event'.state = "delta"
                  => calls' = Append(calls, Call(event'.runId, "onChunk", Extracted.chars))
            /\ event'.state = "final"
                  => /\ calls' = calls \o <<Call(event'.runId, "onChunk", Extracted.chars),
                                            Call(event'.runId, "onDone", <<>>)>>
                     /\ event'.runId \notin chatEventListeners']_vars

\* C20 amended: for a registered run a delta event whose message holds text (a
\* content block of type text with non-empty text) invokes onChunk with the
\* concatenation of those texts, each delta in arrival order; a delta event
\* without text invokes nothing; a final event invokes onChunk with its text when
\* it holds text, then in every case onDone, and removes the registration;
\* neither touches another run's registration
C20_DeltaWithTextChunks ==
    [][(lastOp' = "chatEvent" /\ Registered)
         => /\ event'.state = "delta"
                  => /\ calls' = IF Extracted.isNull THEN calls
                                 ELSE Append(calls, Call(event'.runId, "onChunk",
                                                         Extracted.chars))
                     /\ UNCHANGED chatEventListeners
            /\ event'.state = "final"
                  => /\ calls' = (IF Extracted.isNull THEN calls
                                  ELSE Append(calls, Call(event'.runId, "onChunk",
                                                          Extracted.chars)))
                                     \o <<Call(event'.runId, "onDone", <<>>)>>
                     /\ chatEventListeners' = chatEventListeners \ {event'.runId}]_vars

Hel == <<"H","e","l">>
Hello == <<"H","e","l","l","o">>
HelloBang == <<"H","e","l","l","o","!">>

\* the run of the scenario: chunks "Hel", "Hello", "Hello!", then completion
C20_Witness ==
    /\ lastOp = "chatEvent"
    /\ event.state = "final"
    /\ calls = <<Call(1, "onChunk", Hel), Call(1, "onChunk", Hello),
                 Call(1, "onChunk", HelloBang), Call(1, "onDone", <<>>)>>
    /\ 1 \notin chatEventListeners

CallsOf(r) == SelectSeq(calls, LAMBDA c : c.run = r)

\* C21: once a terminal chat event (final, error, aborted) was dispatched for a
\* run, no callback of that run is invoked again, whether further chat events
\* carry its run id or the caller's signal fires afterwards
C21_NoCallbackAfterTerminal ==
    [][\A r \in finished : CallsOf(r)' = CallsOf(r)]_vars

\* the run whose abortHandler the step ran
AbortedNow(r) == lastOp' = "abort" /\ r \in abortHandlers \ abortHandlers'

\* the chat.abort requests the last task sent
AbortsSent == {notes[i].val : i \in Notified("chatAbort")}

\* the run was completed by its abortHandler, not by a terminal event
AbortedRun(r) ==
    /\ r \notin finished
    /\ r \notin chatEventListeners
    /\ \E i \in 1..Len(calls) : calls[i] = Call(r, "onDone", <<>>)

\* C22 as stated: when the signal fires for a registered, unfinished run, one
\* chat.abort request for the run is issued
C22_AbortIssuesRequest ==
    [][\A r \in chatEventListeners :
          AbortedNow(r)
            => /\ AbortsSent' = {r}
               /\ Cardinality(pending' \ pending) = 1]_vars

\* C22 amended: when the signal fires for a registered, unfinished run, the
\* registration is removed and onDone is invoked once; one chat.abort request for
\* the run is issued if the transport is open, and none otherwise (the
\* not-connected error is swallowed); the connection state, the transport, the
\* timers, the requests already pending and the other registrations stay as they
\* are; a later chat event for that run invokes nothing
C22_AbortOneRun ==
    /\ [][\A r \in chatEventListeners :
            AbortedNow(r)
              => /\ chatEventListeners' = chatEventListeners \ {r}
                 /\ calls' = Append(calls, Call(r, "onDone", <<>>))
                 /\ UNCHANGED ConnectionFields
                 /\ pending \subseteq pending'
                 /\ IF TransportOpen
                    THEN AbortsSent' = {r} /\ Cardinality(pending' \ pending) = 1
                    ELSE AbortsSent' = {} /\ pending' = pending]_vars
    /\ [][\A r \in Runs :
            (AbortedRun(r) /\ lastOp' = "chatEvent" /\ event'.runId = r)
              => calls' = calls /\ UNCHANGED chatEventListeners]_vars

\* the signal of run 1 fired while the transport was down and run 2 was registered
C22_Witness ==
    /\ lastOp = "abort"
    /\ ~TransportOpen
    /\ AbortedRun(1)
    /\ chatEventListeners = {2}
    /\ pending = {}

\* C23: an error chat event for a registered run invokes onError once, with the
\* errorMessage of the event or with the fallback text when the event has none,
\* and nothing else; an aborted chat event invokes onDone once and nothing else;
\* both remove the registration of that run (and of no other)
C23_ErrorAndAborted ==
    [][(lastOp' = "chatEvent" /\ Registered)
         => /\ event'.state = "error"
                  => /\ calls' = Append(calls,
                                   Call(event'.runId, "onError",
                                        IF event'.errorMessage = "absent"
                                        THEN UnknownGatewayError
                                        ELSE MessageChars(event'.errorMessage)))
                     /\ chatEventListeners' = chatEventListeners \ {event'.runId}
            /\ event'.state = "aborted"
                  => /\ calls' = Append(calls, Call(event'.runId, "onDone", <<>>))
                     /\ chatEventListeners' = chatEventListeners \ {event'.runId}]_vars

C23_Witness ==
    /\ lastOp = "chatEvent"
    /\ event.state = "error"
    /\ event.errorMessage = "empty"
    /\ event.runId = 1
    /\ calls = <<Call(1, "onError", <<>>)>>
    /\ chatEventListeners = {2}

PairingNoted == Notified("onPairingRequired") # {}

\* C24: the pairing status changes only unpaired -> pending (the gateway reports
\* pairing required), pending -> paired (a device token is received) and
\* paired or pending -> unpaired (unpair, identity regeneration)
C24_PairingTransitions ==
    [][devicePairingStatus' # devicePairingStatus
         => \/ /\ devicePairingStatus = "unpaired" /\ devicePairingStatus' = "pending"
               /\ lastOp' = "response" /\ PairingNoted'
            \/ /\ devicePairingStatus = "pending" /\ devicePairingStatus' = "paired"
               /\ lastOp' = "response" /\ deviceAuthToken' # NoToken
            \/ /\ devicePairingStatus \in {"paired", "pending"}
               /\ devicePairingStatus' = "unpaired"
               /\ lastOp' \in {"unpair", "regenerate"}]_vars

\* what the sendConnect() that sends request p in this step had read from the
\* settings: at the challenge when it did not suspend, else at its suspension
ReadBy(p) == IF lastOp' = "challenge" THEN Capture ELSE captured[p.nonce]

NewConnectRequests == {p \in pending' : p.method = "connect"} \ pending

Bearer(p) == IF p.params.auth.has THEN p.params.auth.token ELSE NoToken

C26_DeviceTokenSupersedes ==
    /\ [](deviceAuthToken # NoToken => deviceAuthToken = lastReceived)
    /\ [][\A p \in NewConnectRequests :
             ReadBy(p).stored # NoToken => Bearer(p) = ReadBy(p).stored]_vars

\* the step is the continuation of a sendConnect() whose signPayload threw
SignFailedStep == lastOp' = "signFailed"

\* the one connect request of a sendConnect() whose signing failed: no device
\* block, the auth block a signed request would carry
TokenOnly(p, cap) ==
    /\ p.params.device = NoDevice
    /\ p.params.auth = BuildParams(cap, p.nonce, TRUE).auth
    /\ p.params.identity = cap.identity

\* C27 as stated: after a failed signing exactly one connect request is sent,
\* without device block and with the token authentication of a signed one
C27_SignFailureStillConnects ==
    [][SignFailedStep
         => \E p \in NewConnectRequests :
              /\ NewConnectRequests = {p}
              /\ TokenOnly(p, captured[p.nonce])]_vars

\* C27: after a failed signing, if the transport is still open, exactly one
\* connect request is sent on it, without device block and with the token
\* authentication of a signed one, and awaits the gateway's response; if the
\* transport is open no more, no request is sent
C27_SignFailureConnectsIfOpen ==
    [][SignFailedStep
         => IF CanSend(Pack)
            THEN \E p \in NewConnectRequests :
                   /\ NewConnectRequests = {p}
                   /\ p.sock = ws
                   /\ TokenOnly(p, captured[p.nonce])
                   /\ p.id \in rpcTimers'
            ELSE pending' = pending]_vars

\* a token-only connect request of a client with an identity and a token,
\* sent after its signing failed
C27_Witness ==
    /\ lastOp = "signFailed"
    /\ \E p \in ConnectRequests :
         /\ p.params.identity # NoIdentity
         /\ p.params.device = NoDevice
         /\ p.params.auth.has
         /\ p.sock = ws /\ p.nonce = ws

\* hex(sha256(raw public key)) of a stored identity
DerivedId(data) == Sha256Hex(Base64UrlDecode(data.publicKey).bytes)

Consistent(data) ==
    /\ data.has
    /\ Base64UrlDecode(data.publicKey).ok
    /\ data.deviceId = DerivedId(data)

\* the step returned from validateDeviceIdentity()
ValidateReturned == lastOp' \in {"validated", "repaired"}

\* C28: an identity returned by generate or by validate has
\* deviceId = hex(sha256(raw public key)); validate returns a consistent
\* identity unchanged and repairs any other by recomputing its deviceId from
\* the stored public key, with publicKey, privateKey and createdAtMs kept; to
\* validate the result again changes nothing
C28_IdentityConsistent ==
    [][/\ lastOp' = "generateIdentity" => Consistent(identityData')
       /\ ValidateReturned
            => /\ Consistent(identityData')
               /\ Consistent(identityData) => identityData' = identityData
               /\ ~Consistent(identityData)
                    => /\ lastOp' = "repaired"
                       /\ identityData'.deviceId = DerivedId(identityData)
                       /\ identityData'.deviceId # identityData.deviceId
               /\ identityData'.publicKey = identityData.publicKey
               /\ identityData'.privateKey = identityData.privateKey
               /\ identityData'.createdAtMs = identityData.createdAtMs
               /\ ValidateDeviceIdentity(identityData') = identityData']_vars

\* a repaired identity: the zero deviceId found on load was replaced by the
\* one derived from the public key
C28_Witness ==
    /\ lastOp = "repaired"
    /\ Consistent(identityData)
    /\ identityData.deviceId # <<0, 0, 0, 0>>
    /\ Len(identityData.publicKey) > 2

Bar == <<"|">>

\* the scopes of the last call, joined by "," in the order given
ScopesInOrder ==
    IF Len(authParams.scopes) = 0 THEN <<>>
    ELSE IF Len(authParams.scopes) = 1 THEN authParams.scopes[1]
    ELSE authParams.scopes[1] \o <<",">> \o authParams.scopes[2]

\* the decimal digits of the time of the last call
SignedAtDigits ==
    CASE authParams.signedAtMs = 0 -> <<"0">>
      [] authParams.signedAtMs = 70 -> <<"7", "0">>
      [] authParams.signedAtMs = 1205 -> <<"1", "2", "0", "5">>

Reversed(seq) == [i \in 1..Len(seq) |-> seq[Len(seq) + 1 - i]]

\* C29: the payload is the nine fields v2, deviceId, clientId, clientMode, role,
\* scopes, signedAtMs, token, nonce joined by "|" in that order; the scopes
\* are joined by "," in the order given, so that two scopes in the other order
\* give another payload; a null token gives an empty field and the other eight
\* fields stay
C29_PayloadFields ==
    lastOp = "buildPayload"
        => /\ authPayload
                = <<"v", "2">> \o Bar \o authParams.deviceId \o Bar
                    \o authParams.clientId \o Bar \o authParams.clientMode \o Bar
                    \o authParams.role \o Bar \o ScopesInOrder \o Bar
                    \o SignedAtDigits \o Bar
                    \o (IF authParams.token.isNull THEN <<>> ELSE authParams.token.chars)
                    \o Bar \o authParams.nonce
           /\ Cardinality({i \in 1..Len(authPayload) : authPayload[i] = "|"}) = 8
           /\ Reversed(authParams.scopes) # authParams.scopes
                => BuildDeviceAuthPayload(
                       [authParams EXCEPT !.scopes = Reversed(authParams.scopes)])
                     # authPayload

\* the payload of a call with a null token and the scopes sb, sa
C29_Witness ==
    /\ lastOp = "buildPayload"
    /\ authParams.token.isNull
    /\ authParams.scopes = <<ScopeB, ScopeA>>
    /\ authPayload = <<"v", "2", "|", "d", "1", "|", "c", "|", "w", "|", "o", "p", "|",
                       "s", "b", ",", "s", "a", "|", "7", "0", "|", "|", "n">>

\* the step dispatched a chat event
ChatEventStep == lastOp' = "chatEvent"

\* the callbacks the step invoked
NewCalls == SubSeq(calls', Len(calls) + 1, Len(calls'))

\* C30: a chat event is routed by its runId alone: the callbacks it invokes are
\* those of the run registered under its runId, the calls and the registration
\* of every other run are as before, and an event whose runId is not
\* registered changes nothing
C30_RoutedByRunId ==
    [][ChatEventStep
         => /\ Len(calls') >= Len(calls)
            /\ SubSeq(calls', 1, Len(calls)) = calls
            /\ \A i \in 1..Len(NewCalls) : NewCalls[i].run = event'.runId
            /\ NewCalls # <<>> => event'.runId \in chatEventListeners
            /\ \A r \in Runs \ {event'.runId} :
                 /\ CallsOf(r)' = CallsOf(r)
                 /\ r \in chatEventListeners' <=> r \in chatEventListeners
                 /\ r \in abortHandlers' <=> r \in abortHandlers
            /\ event'.runId \notin chatEventListeners
                 => /\ UNCHANGED <<chatEventListeners, abortHandlers, calls>>
                    /\ UNCHANGED <<pending, rpcTimers, state>>]_vars

\* two runs were streaming; the final event of run 1 completed run 1, and run 2,
\* which had received a chunk, is still registered
C30_Witness ==
    /\ lastOp = "chatEvent"
    /\ event.runId = 1
    /\ event.state = "final"
    /\ chatEventListeners = {2}
    /\ calls = <<Call(2, "onChunk", Hel), Call(1, "onChunk", Hello), Call(1, "onDone", <<>>)>>

(* ---- streaming sends that connect first ---- *)
\* The only caller (ChatView) passes a conversation that ends with the user's
\* message, so extractLastUserMessage() finds one.  A wait is named by the
\* number of its sendMessageStreaming() call.

\* the first state after note n of the task that the listener of
\* waitForConnection() acts on, or "none"
Heard(c, n) ==
    LET at == {i \in (n + 1)..Len(c.notes) :
                 /\ c.notes[i].cb = "onStateChange"
                 /\ c.notes[i].val \in {"connected", "disconnected"}}
    IN  IF at = {} THEN "none"
        ELSE c.notes[CHOOSE i \in at : \A j \in at : i <= j].val

FreeIds(c) == ReqIds \ ({p.id : p \in c.pending} \cup c.rpcTimers)

\* chatSend() of n resumed sends: request("chat.send", ...)
RECURSIVE ChatSendAll(_, _)
ChatSendAll(c, n) ==
    IF n = 0 THEN c
    ELSE ChatSendAll(RequestWith(c, "chat.send", NoNonce, NoParams), n - 1)

\* sendMessageStreaming() without `return` after the onError of a wait that gave
\* false: it goes on to chatSend()
ResumedNoReturn(seen, open) ==
    IF seen \in {"connected", "already"}
    THEN [phase |-> "done", seen |-> seen,
          errors |-> IF open THEN 0 ELSE 1, sends |-> IF open THEN 1 ELSE 0]
    ELSE [phase |-> "done", seen |-> seen,
          errors |-> IF open THEN 1 ELSE 2, sends |-> IF open THEN 1 ELSE 0]

\* sendMessageStreaming() from the end of the wait on: onError and return when
\* the wait gave false, else chatSend(), whose request() throws on a transport
\* that is not open, which the catch block hands to onError
Resumed(seen, open) ==
    IF seen \in {"connected", "already"} /\ open
    THEN [phase |-> "done", seen |-> seen, errors |-> 0, sends |-> 1]
    ELSE [phase |-> "done", seen |-> seen, errors |-> 1, sends |-> 0]

Waiting == [phase |-> "waiting", seen |-> "none", errors |-> 0, sends |-> 0]

\* onStateChange of connectWebSocket() calling every listener, and the sends
\* that the listeners' resolve() resumes: c is what the task made of the
\* client; the listeners `old` were registered before the task, the listeners
\* `new` by the task itself, after its note n
Fanout(c, old, new, n) ==
    LET heardOld == Heard(c, 0)
        heardNew == Heard(c, n)
        doneOld == IF heardOld = "none" THEN {} ELSE old
        doneNew == IF heardNew = "none" THEN {} ELSE new
        go == (IF heardOld = "connected" THEN doneOld ELSE {})
                 \cup (IF heardNew = "connected" THEN doneNew ELSE {})
        sent == IF CanSend(c) THEN go ELSE {}
    IN  /\ Cardinality(FreeIds(c)) >= Cardinality(sent)
        /\ CommitFields(ChatSendAll(c, Cardinality(sent)))
        /\ connectionStateListeners' = (old \cup new) \ (doneOld \cup doneNew)
        /\ waitTimers' = (waitTimers \cup new) \ (doneOld \cup doneNew)
        /\ streams' = [k \in Waits |->
                         IF k \in doneOld THEN Resumed(heardOld, CanSend(c))
                         ELSE IF k \in doneNew THEN Resumed(heardNew, CanSend(c))
                         ELSE IF k \in new THEN Waiting
                         ELSE streams[k]]
        /\ UNCHANGED clock
        /\ UNCHANGED facade
        /\ UNCHANGED device
        /\ UNCHANGED <<gatewayToken, deviceIdentity, deviceAuthToken,
                       devicePairingStatus, captured, lastReceived>>

\* a task of the client, heard by the listeners there are
Heeded(c) == Fanout(c, connectionStateListeners, {}, 0) /\ UNCHANGED wsClient

\* sendMessageStreaming() on a client that is connected: no wait
SendConnected(k) ==
    /\ streams[k].phase = "idle"
    /\ wsClient /\ state = "connected"
    /\ CanSend(Pack) => HasFreeId(Pack)
    /\ CommitFields(IF CanSend(Pack) THEN ChatSendAll(Pack, 1) ELSE Pack)
    /\ streams' = [streams EXCEPT ![k] = Resumed("already", CanSend(Pack))]
    /\ UNCHANGED <<connectionStateListeners, waitTimers>>
    /\ UNCHANGED clock
    /\ UNCHANGED facade
    /\ UNCHANGED device
    /\ UNCHANGED settings
    /\ lastOp' = "sendConnected"

\* sendMessageStreaming() otherwise: connectWebSocket() (restart() of the
\* client there is, or a new client and start()), then waitForConnection()
\* registers its listener and arms its timeout; the continuations that
\* restart() made runnable run after that
SendMessageStreaming(k) ==
    /\ streams[k].phase = "idle"
    /\ ~(wsClient /\ state = "connected")
    /\ HasFree(Pack)
    /\ \E throws \in BOOLEAN :
         LET c0 == IF wsClient THEN RestartBody(Pack, throws)
                   ELSE StartBody(Pack, throws)
         IN  Fanout(RunMicro(c0), connectionStateListeners, {k}, Len(c0.notes))
    /\ wsClient' = TRUE
    /\ lastOp' = "sendMessageStreaming"

\* the timeout of waitForConnection() fires: unsub(), resolve(false)
WaitTimeout(k) ==
    /\ k \in waitTimers
    /\ CommitFields(Pack)
    /\ connectionStateListeners' = connectionStateListeners \ {k}
    /\ waitTimers' = waitTimers \ {k}
    /\ streams' = [streams EXCEPT ![k] = Resumed("timeout", CanSend(Pack))]
    /\ UNCHANGED clock
    /\ UNCHANGED facade
    /\ UNCHANGED device
    /\ UNCHANGED settings
    /\ lastOp' = "waitTimeout"

\* disconnectWebSocket(): stop() and wsClient = null
WaitDisconnect ==
    /\ wsClient
    /\ Fanout([InitPack EXCEPT !.notes = StopBody(Pack).notes],
              connectionStateListeners, {}, 0)
    /\ wsClient' = FALSE
    /\ lastOp' = "disconnect"

WaitOpen(s) ==
    /\ readyState[s] = "CONNECTING"
    /\ Heeded(RunMicro(OnOpen([Pack EXCEPT !.readyState[s] = "OPEN"])))
    /\ lastOp' = "open"

\* the close event of socket s, asked for by the client or not
WaitClose(s) ==
    /\ readyState[s] # "CLOSED"
    /\ Heeded(RunMicro(OnClose(WsClosed(Pack, s))))
    /\ lastOp' = "close"

\* a connect.challenge event on socket s with the nonce issued for s; no device
\* identity is configured
WaitChallenge(s) ==
    /\ readyState[s] = "OPEN"
    /\ HasFreeId(Pack)
    /\ Heeded(RunMicro(HandleChallenge(Pack, s, FALSE)))
    /\ lastOp' = "challenge"

\* the errors of the gateway's answers: pairing required, or another
WaitErrors == {Err("PAIRING_REQUIRED", "absent"), Err("UNAUTHORIZED", "upper")}

\* the response to a pending request sent on socket s
WaitResponse(s) ==
    /\ readyState[s] = "OPEN"
    /\ \E p \in pending, ok \in BOOLEAN, err \in WaitErrors \cup {Err(NoCode, "absent")} :
         /\ p.sock = s
         /\ (ok \/ p.method # "connect") <=> err = Err(NoCode, "absent")
         /\ Heeded(RunMicro(HandleResponse(Note(Pack, "frame", [id |-> p.id, ok |-> ok]),
                                            p.id, ok, err)))
    /\ lastOp' = "response"

WaitRpcTimeout(id) ==
    /\ id \in rpcTimers
    /\ Heeded(RunMicro(RequestTimeout(Pack, id)))
    /\ lastOp' = "rpcTimeout"

WaitConnectTimeout ==
    /\ connectTimer
    /\ Heeded(RunMicro(ConnectTimeoutBody([Pack EXCEPT !.connectTimer = FALSE])))
    /\ lastOp' = "connectTimeout"

WaitReconnect ==
    /\ reconnectTimer
    /\ HasFree(Pack)
    /\ \E throws \in BOOLEAN : Heeded(RunMicro(ReconnectBody(Pack, throws)))
    /\ lastOp' = "reconnect"

WaitNext ==
    \/ \E k \in Waits : SendConnected(k)
    \/ \E k \in Waits : SendMessageStreaming(k)
    \/ \E k \in Waits : WaitTimeout(k)
    \/ WaitDisconnect
    \/ \E s \in Sockets : WaitOpen(s)
    \/ \E s \in Sockets : WaitClose(s)
    \/ \E s \in Sockets : WaitChallenge(s)
    \/ \E s \in Sockets : WaitResponse(s)
    \/ \E id \in ReqIds : WaitRpcTimeout(id)
    \/ WaitConnectTimeout
    \/ WaitReconnect

\* setTimeout(..., timeoutMs) in waitForConnection(): an armed timeout fires
\* unless it is cleared
WaitSpec ==
    /\ Init
    /\ [][WaitNext]_vars
    /\ \A k \in Waits : WF_vars(WaitTimeout(k))

\* C36: the pending map and the armed request timeouts correspond one to one:
\* every pending request has its timeout armed, no two pending requests share
\* an id, and no timeout is armed for a request that is pending no more
C36_PendingHaveTimers ==
    /\ PendingIds = rpcTimers
    /\ \A p, q \in pending : p.id = q.id => p = q

\* a teardown flushed two pending requests and disarmed their timeouts
C36_Witness ==
    /\ Cardinality(Notified("reject")) = 2
    /\ pending = {}
    /\ rpcTimers = {}
    /\ lastOp \in {"stop", "close", "restart"}

\* C35: the reconnect timer (this.reconnectTimer, one handle, cleared before it
\* is armed again) is armed only while the client is not stopped and the state
\* is reconnecting or disconnected
C35_ReconnectTimerStates ==
    reconnectTimer => ~closed /\ state \in {"reconnecting", "disconnected"}

\* the step enters the state connected
EntersConnected == state' = "connected" /\ state # "connected"

\* the step resolved connect request p
Resolved(p) ==
    /\ p \notin pending'
    /\ \E i \in Notified("resolve")' : notes'[i].val = p.id

\* C34: the state connected is entered only from authenticating, by a client
\* that is not stopped, and only in the step that handles the successful
\* response to the connect request sent on the transport the client holds
C34_ConnectedOnlyByHandshake ==
    [][EntersConnected
         => /\ state = "authenticating"
            /\ ~closed /\ ~closed'
            /\ lastOp' = "response"
            /\ ws # NoSocket /\ ws' = ws /\ readyState[ws] = "OPEN"
            /\ \E p \in ConnectRequests : p.sock = ws /\ Resolved(p)]_vars

\* the client has just entered connected by the response to its connect request
C34_Witness ==
    /\ state = "connected"
    /\ lastOp = "response"
    /\ \E i \in Notified("onStateChange") : notes[i].val = "connected"
    /\ Notified("resolve") # {}
    /\ ws # NoSocket

\* C38: while the pairing status is paired a device auth token is stored
C38_PairedHasToken ==
    devicePairingStatus = "paired" => deviceAuthToken # NoToken

\* a paired device, its identity regenerated once, holds the token received last
C38_Witness ==
    /\ devicePairingStatus = "paired"
    /\ lastOp = "response"
    /\ deviceAuthToken = 2
    /\ lastReceived = 2
    /\ deviceIdentity = 2

\* C39: buildDeviceAuthPayload is injective: no other parameter record, also
\* among those whose strings hold "|" or ",", gives the payload of the last call
C39_PayloadInjective ==
    lastOp = "buildDelimited"
        => \A other \in DelimitedParams :
             other # authParams => BuildDeviceAuthPayload(other) # authPayload

\* the connect requests that carry a device block
DeviceRequests == {p \in ConnectRequests : p.params.device # NoDevice}

\* C37: in every connect request with a device block the token of the signed
\* payload is the bearer token of the request (none when the auth block is
\* omitted), the signed nonce is the nonce of the challenge of the transport the
\* request is sent on (a nonce names its transport), and the signed deviceId is
\* the device.id sent
C37_SignedPayloadMatchesRequest ==
    \A p \in DeviceRequests :
        /\ p.params.device.token = Bearer(p)
        /\ p.params.device.nonce = p.sock
        /\ p.params.device.signedId = p.params.device.id

\* a callback that ends the streaming send of run r was invoked
Ended(r) == \E i \in 1..Len(calls) : calls[i].run = r /\ calls[i].cb \in {"onDone", "onError"}

\* C31: every registered streaming send is ended by onDone or onError, and its
\* registration leaves the router
C31_EveryRunEnds ==
    \A r \in Runs :
        (r \in chatEventListeners) ~> (Ended(r) /\ r \notin chatEventListeners)

\* C32: every request in the pending map leaves it (by its response, by a
\* flush, or at the latest when its timeout fires)
C32_PendingSettles ==
    \A id \in ReqIds : (id \in PendingIds) ~> (id \notin PendingIds)

\* a pending request was removed by its own timeout and rejected
C32_Witness ==
    /\ lastOp = "rpcTimeout"
    /\ Notified("reject") # {}
    /\ pending = {}
    /\ rpcTimers = {}
    /\ state = "connected"

\* the send waited for a connection and the wait has ended
WaitedFor(k) == streams[k].phase = "done" /\ streams[k].seen # "already"

\* C33: a streaming send made while the client is not connected starts a
\* connection attempt and waits with its listener registered and its timeout
\* armed; the wait ends; when it ends on connected, chat.send is issued and
\* onError is not called; when it ends on disconnected or on the timeout,
\* onError is called once and chat.send is not issued; the listeners registered
\* are those of the sends still waiting, so each ended wait removed its own
C33_AutoConnectWait ==
    /\ [](/\ lastOp = "sendMessageStreaming"
             => wsClient /\ ~closed /\ (ws # NoSocket \/ reconnectTimer)
          /\ connectionStateListeners = {k \in Waits : streams[k].phase = "waiting"}
          /\ waitTimers = connectionStateListeners
          /\ \A k \in Waits :
               /\ streams[k].phase = "waiting"
                    => streams[k].errors = 0 /\ streams[k].sends = 0
               /\ WaitedFor(k) /\ streams[k].seen = "connected"
                    => streams[k].sends = 1 /\ streams[k].errors = 0
               /\ WaitedFor(k) /\ streams[k].seen # "connected"
                    => /\ streams[k].seen \in {"disconnected", "timeout"}
                       /\ streams[k].errors = 1
                       /\ streams[k].sends = 0)
    /\ \A k \in Waits : (streams[k].phase = "waiting") ~> WaitedFor(k)

\* one wait ended on connected and sent, the other ended on the timeout
C33_Witness ==
    /\ streams[1] = [phase |-> "done", seen |-> "connected", errors |-> 0, sends |-> 1]
    /\ streams[2] = [phase |-> "done", seen |-> "timeout", errors |-> 1, sends |-> 0]
    /\ connectionStateListeners = {}
    /\ \E p \in pending : p.method = "chat.send"

====
